---- MODULE Spec2Model ----
(***************************************************************************)
(* Model of the retrieval pipeline of expediente-digital: the query        *)
(* compiler buildSearchQuery (both revisions), the collection dispatcher   *)
(* and latest resolver, the deduplicator/normalizer, and the two           *)
(* orchestrations of a request: the inline flow (searchDocumentsFlow of    *)
(* src/src/ai/flows/search-documents.ts, lines 218-366) and the two-phase  *)
(* protocol (handleSearch of src/src/app/actions.ts, lines 208-332, with   *)
(* searchDocumentsFlow of src/unnamed/part_003, lines 402-463).            *)
(*                                                                         *)
(* Strings are TLA+ strings; JavaScript values whose type the code tests   *)
(* are tagged records ([t |-> "string", s |-> ...], ...); an optional      *)
(* field that is absent is absent from the record's DOMAIN.                *)
(***************************************************************************)
EXTENDS Integers, Sequences, FiniteSets, TLC

(***************************************************************************)
(* JavaScript values                                                       *)
(***************************************************************************)
Undefined == [t |-> "undefined"]
Null == [t |-> "null"]
Str(s) == [t |-> "string", s |-> s]
Num(n) == [t |-> "number", n |-> n]
DateV(iso) == [t |-> "date", d |-> iso]
Arr(a) == [t |-> "array", a |-> a]
Obj(o) == [t |-> "object", o |-> o]
ObjectId(hex) == [t |-> "ObjectId", hex |-> hex]
StrArr(ss) == Arr([i \in 1..Len(ss) |-> Str(ss[i])])

\* JavaScript truthiness, as used by `if (year)`, `!year`, `a || b`.
Truthy(v) ==
    CASE v.t = "undefined" -> FALSE
      [] v.t = "null" -> FALSE
      [] v.t = "number" -> v.n # 0
      [] v.t = "string" -> v.s # ""
      [] OTHER -> TRUE

\* r[f] of a JavaScript object: undefined when the property is absent.
Prop(r, f) == IF f \in DOMAIN r THEN r[f] ELSE Undefined

(***************************************************************************)
(* Strings                                                                 *)
(***************************************************************************)
CharAt(s, i) == SubSeq(s, i, i)

Digits == {"0", "1", "2", "3", "4", "5", "6", "7", "8", "9"}

IsDigit(c) == c \in Digits

DigitValue(c) ==
    CASE c = "0" -> 0 [] c = "1" -> 1 [] c = "2" -> 2 [] c = "3" -> 3
      [] c = "4" -> 4 [] c = "5" -> 5 [] c = "6" -> 6 [] c = "7" -> 7
      [] c = "8" -> 8 [] c = "9" -> 9

DigitChar(d) ==
    CASE d = 0 -> "0" [] d = 1 -> "1" [] d = 2 -> "2" [] d = 3 -> "3"
      [] d = 4 -> "4" [] d = 5 -> "5" [] d = 6 -> "6" [] d = 7 -> "7"
      [] d = 8 -> "8" [] d = 9 -> "9"

LowerChar(c) ==
    CASE c = "A" -> "a" [] c = "B" -> "b" [] c = "C" -> "c" [] c = "D" -> "d"
      [] c = "E" -> "e" [] c = "F" -> "f" [] c = "G" -> "g" [] c = "H" -> "h"
      [] c = "I" -> "i" [] c = "J" -> "j" [] c = "K" -> "k" [] c = "L" -> "l"
      [] c = "M" -> "m" [] c = "N" -> "n" [] c = "O" -> "o" [] c = "P" -> "p"
      [] c = "Q" -> "q" [] c = "R" -> "r" [] c = "S" -> "s" [] c = "T" -> "t"
      [] c = "U" -> "u" [] c = "V" -> "v" [] c = "W" -> "w" [] c = "X" -> "x"
      [] c = "Y" -> "y" [] c = "Z" -> "z" [] OTHER -> c

RECURSIVE toLowerCase(_)
toLowerCase(s) ==
    IF Len(s) = 0 THEN ""
    ELSE IF Len(s) = 1 THEN LowerChar(CharAt(s, 1))
    ELSE LET half == Len(s) \div 2
         IN  toLowerCase(SubSeq(s, 1, half)) \o toLowerCase(SubSeq(s, half + 1, Len(s)))

startsWith(s, p) == Len(p) <= Len(s) /\ SubSeq(s, 1, Len(p)) = p

endsWith(s, p) == Len(p) <= Len(s) /\ SubSeq(s, Len(s) - Len(p) + 1, Len(s)) = p

includes(s, p) ==
    \/ Len(p) = 0
    \/ \E i \in 1..(Len(s) - Len(p) + 1) : SubSeq(s, i, i + Len(p) - 1) = p

\* Number.prototype.toString() of a non-negative integer.
RECURSIVE NumberToString(_)
NumberToString(n) ==
    IF n < 10 THEN DigitChar(n)
    ELSE NumberToString(n \div 10) \o DigitChar(n % 10)

\* String.prototype.slice(-k): the last k characters (the whole string if shorter).
SliceLast(s, k) == IF Len(s) <= k THEN s ELSE SubSeq(s, Len(s) - k + 1, Len(s))

\* parseInt(digits, 10) of a non-empty string of decimal digits.
RECURSIVE parseInt(_)
parseInt(ds) ==
    IF Len(ds) = 0 THEN 0
    ELSE 10 * parseInt(SubSeq(ds, 1, Len(ds) - 1)) + DigitValue(CharAt(ds, Len(ds)))

(***************************************************************************)
(* Regular expressions.  A $regex source built by the code from a keyword  *)
(* or a year is literal text with an optional leading ^ and trailing $;    *)
(* the option 'i' compares case-insensitively.                             *)
(***************************************************************************)
RegexTest(src, ci, s) ==
    LET p == IF ci THEN toLowerCase(src) ELSE src
        t == IF ci THEN toLowerCase(s) ELSE s
        fromStart == Len(p) > 0 /\ Head(p) = "^"
        toEnd == Len(p) > (IF fromStart THEN 1 ELSE 0) /\ CharAt(p, Len(p)) = "$"
        body == SubSeq(p, IF fromStart THEN 2 ELSE 1,
                          IF toEnd THEN Len(p) - 1 ELSE Len(p))
    IN  CASE fromStart /\ toEnd -> t = body
          [] fromStart -> startsWith(t, body)
          [] toEnd -> endsWith(t, body)
          [] OTHER -> includes(t, body)

\* /^\d{1,2}\/\d{2}$/.test(k)
circularNumberRegex(k) ==
    \/ /\ Len(k) = 4
       /\ IsDigit(CharAt(k, 1)) /\ CharAt(k, 2) = "/"
       /\ IsDigit(CharAt(k, 3)) /\ IsDigit(CharAt(k, 4))
    \/ /\ Len(k) = 5
       /\ IsDigit(CharAt(k, 1)) /\ IsDigit(CharAt(k, 2)) /\ CharAt(k, 3) = "/"
       /\ IsDigit(CharAt(k, 4)) /\ IsDigit(CharAt(k, 5))

(***************************************************************************)
(* Filter predicates (the objects handed to collection.find)               *)
(***************************************************************************)
\* {} : the empty, match-all predicate
MatchAll == [op |-> "all"]
\* { [field]: { $regex: src, $options: 'i' } }
RegexCond(field, src) == [op |-> "regex", field |-> field, regex |-> src]
\* { [field]: value }
EqCond(field, value) == [op |-> "eq", field |-> field, value |-> value]
\* { $or: args }
OrCond(args) == [op |-> "or", args |-> args]
\* { $and: args }
AndCond(args) == [op |-> "and", args |-> args]
\* { f1: c1, f2: c2 } : one object with several field conditions
FieldsCond(args) == [op |-> "fields", args |-> args]

\* [...new Set(a)] : the distinct elements in order of first occurrence
Unique(a) ==
    LET first == {i \in 1..Len(a) : \A j \in 1..(i - 1) : a[j] # a[i]}
        F[i \in 0..Len(a)] ==
            IF i = 0 THEN <<>>
            ELSE IF i \in first THEN Append(F[i - 1], a[i]) ELSE F[i - 1]
    IN  F[Len(a)]

circularFields ==
    <<"tipo_normativa", "numero", "resumen", "tema", "palabras_clave",
      "entidades_afectadas.nombre_entidad", "entidades_afectadas.tipo",
      "entidades_afectadas.tipo_entidad">>

instructionFields == <<"titulo", "resumen", "palabras_clave", "tipo_normativa">>

regulationFields ==
    <<"titulo_seccion", "articulos.resumen_articulo",
      "articulos.palabras_clave_articulo">>

\* uniqueTextSearchFields of buildSearchQuery
uniqueTextSearchFields(documentType) ==
    LET documentTypesToQuery ==
            IF documentType = "all" THEN {"circular", "instruction", "regulation"}
            ELSE {documentType}
    IN  Unique((IF "circular" \in documentTypesToQuery THEN circularFields ELSE <<>>)
               \o (IF "instruction" \in documentTypesToQuery THEN instructionFields ELSE <<>>)
               \o (IF "regulation" \in documentTypesToQuery THEN regulationFields ELSE <<>>))

\* A lookup that returns the last keyword of the circular-number form.
circularNumberKeywordLast(keywords) ==
    LET hits == {i \in 1..Len(keywords) : circularNumberRegex(keywords[i])}
    IN  IF hits = {} THEN Undefined
        ELSE Str(keywords[CHOOSE i \in hits : \A j \in hits : j <= i])

\* keywords.find(k => circularNumberRegex.test(k))
circularNumberKeyword(keywords) ==
    LET hits == {i \in 1..Len(keywords) : circularNumberRegex(keywords[i])}
    IN  IF hits = {} THEN Undefined
        ELSE Str(keywords[CHOOSE i \in hits : \A j \in hits : i <= j])

\* The identifier shortcut of buildSearchQuery applies.
ShortcutApplies(keywords, documentType) ==
    /\ Truthy(circularNumberKeyword(keywords))
    /\ documentType \in {"circular", "all"}

ShortcutQuery(keywords) ==
    FieldsCond(<<RegexCond("tipo_normativa", "CIRCULAR"),
                 EqCond("numero", circularNumberKeyword(keywords).s)>>)

\* The regex conditions of one keyword over the applicable fields.
KeywordClauses(keyword, documentType) ==
    LET fields == uniqueTextSearchFields(documentType)
    IN  [j \in 1..Len(fields) |-> RegexCond(fields[j], keyword)]

\* A year condition that offers the number-suffix alternative for every
\* document type.
YearConditionAllTypes(documentType, year) ==
    LET yearLong == NumberToString(year.n)
        yearShort == SliceLast(yearLong, 2)
    IN  OrCond(<<RegexCond("fecha_expedicion", "^" \o yearLong),
                 AndCond(<<RegexCond("tipo_normativa", "CIRCULAR"),
                           RegexCond("numero", "/" \o yearShort \o "$")>>)>>)

\* yearOrConditions of buildSearchQuery (year is a truthy number)
YearCondition(documentType, year) ==
    LET yearLong == NumberToString(year.n)
        yearShort == SliceLast(yearLong, 2)
        documentTypesForYearQuery ==
            IF documentType \in {"all", "circular"} THEN {"circular"} ELSE {}
    IN  OrCond(<<RegexCond("fecha_expedicion", "^" \o yearLong)>>
               \o (IF "circular" \in documentTypesForYearQuery
                   THEN <<AndCond(<<RegexCond("tipo_normativa", "CIRCULAR"),
                                    RegexCond("numero", "/" \o yearShort \o "$")>>)>>
                   ELSE <<>>))

\* "Combine all AND conditions"
CombineAnd(conditions) ==
    IF Len(conditions) = 0 THEN MatchAll
    ELSE IF Len(conditions) = 1 THEN conditions[1]
    ELSE AndCond(conditions)

\* keywordOrConditions of actions.ts: one flat list over all keywords
keywordOrConditions(keywords, documentType) ==
    LET fields == uniqueTextSearchFields(documentType)
        n == Len(fields)
    IN  [k \in 1..(Len(keywords) * n) |->
            RegexCond(fields[((k - 1) % n) + 1], keywords[((k - 1) \div n) + 1])]

\* buildSearchQuery of src/src/app/actions.ts (the two-phase path)
buildSearchQuery(keywords, documentType, year) ==
    IF ShortcutApplies(keywords, documentType) THEN ShortcutQuery(keywords)
    ELSE LET kw == keywordOrConditions(keywords, documentType)
             finalConditions ==
                 (IF Len(kw) > 0 THEN <<OrCond(kw)>> ELSE <<>>)
                 \o (IF Truthy(year) THEN <<YearCondition(documentType, year)>> ELSE <<>>)
         IN  CombineAnd(finalConditions)

\* buildSearchQuery of src/src/ai/flows/search-documents.ts (the inline path)
buildSearchQueryFlow(keywords, documentType, year) ==
    IF ShortcutApplies(keywords, documentType) THEN ShortcutQuery(keywords)
    ELSE LET perKeyword ==
                 [i \in 1..Len(keywords) |-> OrCond(KeywordClauses(keywords[i], documentType))]
             andConditions ==
                 perKeyword
                 \o (IF Truthy(year) THEN <<YearCondition(documentType, year)>> ELSE <<>>)
         IN  CombineAnd(andConditions)

(***************************************************************************)
(* The document store's evaluation of a predicate on a stored record       *)
(***************************************************************************)
\* Position of the first "." of a field path, 0 if none.
DotAt(path) ==
    LET dots == {i \in 1..Len(path) : CharAt(path, i) = "."}
    IN  IF dots = {} THEN 0 ELSE CHOOSE i \in dots : \A j \in dots : i <= j

\* The strings a condition on `path` is tested against, starting from value v:
\* a string itself, the string elements of an array, and the same through the
\* elements of an array of sub-records.  Dates, numbers and null match no regex.
RECURSIVE PathStrings(_, _)
PathStrings(v, path) ==
    IF path = ""
    THEN CASE v.t = "string" -> {v.s}
           [] v.t = "array" -> {v.a[i].s : i \in {j \in 1..Len(v.a) : v.a[j].t = "string"}}
           [] OTHER -> {}
    ELSE LET d == DotAt(path)
             head == IF d = 0 THEN path ELSE SubSeq(path, 1, d - 1)
             rest == IF d = 0 THEN "" ELSE SubSeq(path, d + 1, Len(path))
         IN  CASE v.t = "object" -> PathStrings(Prop(v.o, head), rest)
               [] v.t = "array" ->
                    UNION {PathStrings(v.a[i], path) :
                             i \in {j \in 1..Len(v.a) : v.a[j].t = "object"}}
               [] OTHER -> {}

RECURSIVE Matches(_, _)
Matches(pred, doc) ==
    CASE pred.op = "all" -> TRUE
      [] pred.op = "regex" ->
           \E s \in PathStrings(Obj(doc), pred.field) : RegexTest(pred.regex, TRUE, s)
      [] pred.op = "eq" ->
           \E s \in PathStrings(Obj(doc), pred.field) : s = pred.value
      [] pred.op = "or" -> \E i \in 1..Len(pred.args) : Matches(pred.args[i], doc)
      [] pred.op \in {"and", "fields"} ->
           \A i \in 1..Len(pred.args) : Matches(pred.args[i], doc)

\* collection.find(pred).toArray(): the matching records in store order
Find(coll, pred) == SelectSeq(coll, LAMBDA d : Matches(pred, d))

(***************************************************************************)
(* Store contents.  Three collections of stored records; each record maps  *)
(* its field names to JavaScript values.  The sequences are in store       *)
(* (arrival) order.                                                        *)
(***************************************************************************)
Entidad(nombre, tipo, tipoEntidad) ==
    Obj([nombre_entidad |-> Str(nombre), tipo |-> Str(tipo), tipo_entidad |-> Str(tipoEntidad)])

Articulo(numero, resumen, claves) ==
    Obj([numero_articulo |-> numero, resumen_articulo |-> Str(resumen),
         palabras_clave_articulo |-> StrArr(claves)])

circ0620 ==
    [_id |-> ObjectId("c1"), tipo_normativa |-> Str("CIRCULAR"), numero |-> Str("06/20"),
     resumen |-> Str("Firma digital"), tema |-> Str("firma"),
     palabras_clave |-> StrArr(<<"firma", "digital">>),
     fecha_expedicion |-> Str("2020-03-01")]

circ0423 ==
    [_id |-> ObjectId("c2"), tipo_normativa |-> Str("Circular"), numero |-> Str("04/23"),
     resumen |-> Str("Plazo de firma"), tema |-> Str("plazo"),
     fecha_expedicion |-> DateV("2023-02-10"),
     entidades_afectadas |-> Arr(<<Entidad("Juzgado", "ALTA", "oficina")>>)]

circ0520 ==
    [_id |-> ObjectId("c3"), tipo_normativa |-> Str("CIRCULAR"), numero |-> Str("5/20"),
     resumen |-> Str("Feria"), tema |-> Str("feria"),
     palabras_clave |-> StrArr(<<"plazo">>),
     fecha_expedicion |-> Str("2023-11-30")]

acordada0620 ==
    [_id |-> ObjectId("c4"), tipo_normativa |-> Str("ACORDADA"), numero |-> Str("06/20"),
     resumen |-> Str("Mesa de entradas"), fecha_expedicion |-> Str("2020-06-01")]

circ1205 ==
    [_id |-> ObjectId("c5"), tipo_normativa |-> Str("CIRCULAR"), numero |-> Str("12/05"),
     resumen |-> Str("Archivo"), fecha_expedicion |-> Str("2005-08-15"),
     entidades_afectadas |-> Arr(<<Entidad("Mesa de firma", "BAJA", "plazo")>>)]

circ0123 ==
    [_id |-> ObjectId("c6"), tipo_normativa |-> Str("CIRCULAR"), numero |-> Str("01/23"),
     resumen |-> Str("Turnos"), fecha_expedicion |-> Str("2022-12-28")]

instI10 ==
    [_id |-> ObjectId("i1"), titulo |-> Str("I10 - Firma"), resumen |-> Str("Como firmar"),
     palabras_clave |-> StrArr(<<"firma">>)]

instI141 ==
    [_id |-> ObjectId("i2"), titulo |-> Str("I141 - Plazo"), resumen |-> Str("Computo"),
     palabras_clave |-> StrArr(<<"plazo">>)]

instE3 ==
    [_id |-> ObjectId("i3"), titulo |-> Str("E3 - Presentaciones"),
     resumen |-> Str("Firma y plazo"), tipo_normativa |-> Str("INSTRUCTIVO")]

instI141bis ==
    [_id |-> ObjectId("i4"), titulo |-> Str("I141 bis"), resumen |-> Str("Anexo 2023")]

instE12 ==
    [_id |-> ObjectId("i5"), titulo |-> Str("E12 - Oficios"), resumen |-> Str("Oficios")]

instIndice ==
    [_id |-> ObjectId("i6"), titulo |-> Str("Indice"), resumen |-> Str("Listado de firma")]

\* An instruction whose identity renders like that of circ0620.
instSameId ==
    [_id |-> Str("c1"), titulo |-> Str("I7 - Firma"), resumen |-> Str("Copia"),
     fecha_expedicion |-> Str("2023-01-01")]

regTituloI ==
    [_id |-> ObjectId("r1"), titulo_seccion |-> Str("TITULO I: Firma"),
     articulos |-> Arr(<<Articulo(Num(1), "Ambito", <<"ambito">>),
                         Articulo(Num(2), "Plazo de carga", <<"plazo", "carga">>)>>)]

regTituloII ==
    [_id |-> ObjectId("r2"), titulo_seccion |-> Str("TITULO II: Comunicaciones"),
     articulos |-> Arr(<<Articulo(Str("3"), "Notificacion", <<"firma">>),
                         Articulo(Num(4), "Cedulas", <<"cedula">>),
                         Articulo(Num(5), "Oficios", <<"oficio">>)>>)]

regSinArticulos ==
    [_id |-> ObjectId("i2"), titulo_seccion |-> Str("ANEXO: Plazo")]

\* Stored record shapes for normalization: an ObjectId identity with a null
\* field, a Date and a delimited keyword string; a second record of the same
\* identity held as a string; a regulation section whose articles carry numeric
\* numbers, a number 0 and a null element; a numeric identity with an empty
\* keyword string and an undefined property; a record with nothing to change.
normInstructivo ==
    [_id |-> ObjectId("n1"), titulo |-> Str("E5 - Turnos"), link_de_acceso |-> Null,
     fecha_expedicion |-> DateV("2024-03-01"),
     palabras_clave |-> Str("turno, feria ,guardia")]

normDuplicado ==
    [_id |-> Str("n1"), titulo |-> Str("E5 - Turnos (copia)"),
     palabras_clave |-> StrArr(<<"turno">>)]

normReglamento ==
    [_id |-> ObjectId("n2"), titulo_seccion |-> Str("TITULO III"), resumen |-> Null,
     articulos |-> Arr(<<Articulo(Num(7), "Turnos", <<"turno">>),
                         Null,
                         Obj([numero_articulo |-> Num(0), resumen_articulo |-> Null])>>)]

normNumerico ==
    [_id |-> Num(7), palabras_clave |-> Str(""), tema |-> Undefined,
     fecha_expedicion |-> Null]

normCircular ==
    [_id |-> ObjectId("n3"), tipo_normativa |-> Str("CIRCULAR"), numero |-> Str("01/24"),
     fecha_expedicion |-> Str("2024-01-05"), palabras_clave |-> StrArr(<<"feria">>)]

RecordPool == {normInstructivo, normDuplicado, normReglamento, normNumerico, normCircular}

StoreFull ==
    [circulares |-> <<circ0620, circ0423, circ0520, acordada0620, circ1205, circ0123>>,
     instructivos |-> <<instI10, instI141, instE3, instI141bis, instSameId, instIndice>>,
     reglamentos |-> <<regTituloI, regTituloII, regSinArticulos>>]

StoreSmall ==
    [circulares |-> <<circ0423>>,
     instructivos |-> <<instE3, instE12, instIndice>>,
     reglamentos |-> <<>>]

Stores == {StoreFull, StoreSmall}

\* A store with no internal instruction and fewer notices than the latest
\* branch returns.
StoreExternos ==
    [circulares |-> <<circ0520, circ0423, circ0123>>,
     instructivos |-> <<instE3, instE12>>,
     reglamentos |-> <<regSinArticulos>>]

\* A store whose internal instructions have no number: a record without a
\* title, then two titles that start with I and go on without digits.
instGeneral ==
    [_id |-> ObjectId("i8"), titulo |-> Str("Instructivo general"), resumen |-> Str("Normas")]

StoreIndices ==
    [circulares |-> <<circ0423>>,
     instructivos |-> <<[_id |-> ObjectId("i7"), resumen |-> Str("Sin titulo")],
                        instIndice, instE3, instGeneral>>,
     reglamentos |-> <<>>]

LatestStores == {StoreFull, StoreExternos, StoreIndices}

\* Stored records that lack expected fields: a notice with neither summary
\* nor keywords and a null link, an instruction without a title, a
\* regulation section without an identity.
sinResumen ==
    [_id |-> ObjectId("m1"), tipo_normativa |-> Str("CIRCULAR"), numero |-> Str("07/21"),
     tema |-> Str("firma"), link_de_acceso |-> Null]

sinTitulo == [_id |-> ObjectId("m2"), resumen |-> Str("Firma digital")]

sinIdentidad == [titulo_seccion |-> Str("TITULO IV: Plazo")]

StoreMalformed ==
    [circulares |-> <<sinResumen, circ0423>>,
     instructivos |-> <<sinTitulo, instE3>>,
     reglamentos |-> <<regSinArticulos, sinIdentidad>>]

\* Every stored record of every store.
DocPool ==
    UNION {{st[c][i] : i \in 1..Len(st[c])} :
             st \in Stores, c \in {"circulares", "instructivos", "reglamentos"}}

(***************************************************************************)
(* Latest resolver                                                         *)
(***************************************************************************)
\* The digits matched by (\d+) in /^[IE](\d+)/, "" when the title does not match.
LeadingNumber(title) ==
    IF Len(title) >= 2 /\ CharAt(title, 1) \in {"I", "E"} /\ IsDigit(CharAt(title, 2))
    THEN LET stop == {i \in 2..Len(title) : ~IsDigit(CharAt(title, i))}
             last == IF stop = {} THEN Len(title)
                     ELSE (CHOOSE i \in stop : \A j \in stop : i <= j) - 1
         IN  SubSeq(title, 2, last)
    ELSE ""

\* getNumber: const match = title.match(/^[IE](\d+)/); match ? parseInt(match[1], 10) : 0
getNumber(title) ==
    IF LeadingNumber(title) = "" THEN 0 ELSE parseInt(LeadingNumber(title))

\* b.titulo || ''
TituloOrEmpty(d) ==
    IF Truthy(Prop(d, "titulo")) /\ Prop(d, "titulo").t = "string" THEN d.titulo.s ELSE ""

\* A sort that puts a record before the earlier records of equal number.
sortInstructivosUnstable(instructivos) ==
    LET key(d) == getNumber(TituloOrEmpty(d))
        Insert(sorted, x) ==
            LET keep == {i \in 1..Len(sorted) : key(sorted[i]) > key(x)}
                n == Cardinality(keep)
            IN  SubSeq(sorted, 1, n) \o <<x>> \o SubSeq(sorted, n + 1, Len(sorted))
        F[i \in 0..Len(instructivos)] ==
            IF i = 0 THEN <<>> ELSE Insert(F[i - 1], instructivos[i])
    IN  F[Len(instructivos)]

\* instructivos.sort((a, b) => getNumber(b.titulo || '') - getNumber(a.titulo || '')):
\* descending by number, stable (equal numbers keep their arrival order).
sortInstructivos(instructivos) ==
    LET key(d) == getNumber(TituloOrEmpty(d))
        Insert(sorted, x) ==
            LET keep == {i \in 1..Len(sorted) : key(sorted[i]) >= key(x)}
                n == Cardinality(keep)
            IN  SubSeq(sorted, 1, n) \o <<x>> \o SubSeq(sorted, n + 1, Len(sorted))
        F[i \in 0..Len(instructivos)] ==
            IF i = 0 THEN <<>> ELSE Insert(F[i - 1], instructivos[i])
    IN  F[Len(instructivos)]

\* { titulo: { $regex: `^${type}` } } : no options, so case-sensitive
PrefixQuery(type) == [op |-> "regex_cs", field |-> "titulo", regex |-> "^" \o type]

MatchesPrefix(pred, d) ==
    \E s \in PathStrings(Obj(d), pred.field) : RegexTest(pred.regex, FALSE, s)

\* A resolver that returns nothing when the first record has no number.
findLatestDigitsOnly(coll, type) ==
    LET instructivos == SelectSeq(coll, LAMBDA d : MatchesPrefix(PrefixQuery(type), d))
        sorted == sortInstructivos(instructivos)
    IN  IF Len(instructivos) = 0 \/ LeadingNumber(TituloOrEmpty(sorted[1])) = "" THEN <<>>
        ELSE <<sorted[1]>>

\* findLatest(type): the records the call contributes to the results (none or one)
findLatest(coll, type) ==
    LET instructivos == SelectSeq(coll, LAMBDA d : MatchesPrefix(PrefixQuery(type), d))
        sorted == sortInstructivos(instructivos)
    IN  IF Len(instructivos) = 0 THEN <<>> ELSE <<sorted[1]>>

\* Rank of the characters of an ISO date, for the store's string ordering.
CharRank(c) == IF IsDigit(c) THEN DigitValue(c) + 1 ELSE 0

RECURSIVE StrLeq(_, _)
StrLeq(a, b) ==
    IF Len(a) = 0 THEN TRUE
    ELSE IF Len(b) = 0 THEN FALSE
    ELSE IF CharRank(Head(a)) # CharRank(Head(b)) THEN CharRank(Head(a)) < CharRank(Head(b))
    ELSE StrLeq(Tail(a), Tail(b))

\* The store's ordering of fecha_expedicion values: absent < strings < dates.
FechaLeq(x, y) ==
    LET fx == Prop(x, "fecha_expedicion")
        fy == Prop(y, "fecha_expedicion")
        rank(v) == CASE v.t = "date" -> 2 [] v.t = "string" -> 1 [] OTHER -> 0
        text(v) == CASE v.t = "date" -> v.d [] v.t = "string" -> v.s [] OTHER -> ""
    IN  IF rank(fx) # rank(fy) THEN rank(fx) < rank(fy) ELSE StrLeq(text(fx), text(fy))

LatestLimit == 5

\* collection.find({}).sort({ fecha_expedicion: -1 }).limit(5).toArray()
latestCirculares(coll) ==
    LET Insert(sorted, x) ==
            LET keep == {i \in 1..Len(sorted) : FechaLeq(x, sorted[i])}
                n == Cardinality(keep)
            IN  SubSeq(sorted, 1, n) \o <<x>> \o SubSeq(sorted, n + 1, Len(sorted))
        F[i \in 0..Len(coll)] == IF i = 0 THEN <<>> ELSE Insert(F[i - 1], coll[i])
        sorted == F[Len(coll)]
    IN  SubSeq(sorted, 1, IF Len(sorted) < LatestLimit THEN Len(sorted) ELSE LatestLimit)

(***************************************************************************)
(* Deduplication and normalization                                         *)
(***************************************************************************)
\* An identity rendering that wraps the text it is given.
IdStringWrapped(d) ==
    LET id == d._id
    IN  CASE id.t = "ObjectId" -> "ObjectId(" \o id.hex \o ")"
          [] id.t = "string" -> "ObjectId(" \o id.s \o ")"
          [] id.t = "number" -> "ObjectId(" \o NumberToString(id.n) \o ")"

\* r._id.toString() can be evaluated: _id is neither undefined nor null.
HasIdentity(r) == Prop(r, "_id").t \notin {"null", "undefined"}

\* _id.toString()
IdString(d) ==
    LET id == d._id
    IN  CASE id.t = "ObjectId" -> id.hex
          [] id.t = "string" -> id.s
          [] id.t = "number" -> NumberToString(id.n)

\* A deduplication that keeps every fetched record.
uniqueResultsKeepAll(results) == results

\* A deduplication that keeps the last record of each identity.
uniqueResultsKeepLast(results) ==
    LET lastOfId == {i \in 1..Len(results) :
                       \A j \in (i + 1)..Len(results) : IdString(results[j]) # IdString(results[i])}
        F[i \in 0..Len(results)] ==
            IF i = 0 THEN <<>>
            ELSE IF i \in lastOfId THEN Append(F[i - 1], results[i]) ELSE F[i - 1]
    IN  F[Len(results)]

\* results.filter((res, index, self) =>
\*     index === self.findIndex(r => r._id.toString() === res._id.toString()))
uniqueResults(results) ==
    LET firstOfId == {i \in 1..Len(results) :
                        \A j \in 1..(i - 1) : IdString(results[j]) # IdString(results[i])}
        F[i \in 0..Len(results)] ==
            IF i = 0 THEN <<>>
            ELSE IF i \in firstOfId THEN Append(F[i - 1], results[i]) ELSE F[i - 1]
    IN  F[Len(results)]

\* String.prototype.trim for blanks
RECURSIVE trim(_)
trim(s) ==
    IF Len(s) > 0 /\ Head(s) = " " THEN trim(Tail(s))
    ELSE IF Len(s) > 0 /\ CharAt(s, Len(s)) = " " THEN trim(SubSeq(s, 1, Len(s) - 1))
    ELSE s

\* s.split(',')
RECURSIVE split(_)
split(s) ==
    LET commas == {i \in 1..Len(s) : CharAt(s, i) = ","}
    IN  IF commas = {} THEN <<s>>
        ELSE LET c == CHOOSE i \in commas : \A j \in commas : i <= j
             IN  <<SubSeq(s, 1, c - 1)>> \o split(SubSeq(s, c + 1, Len(s)))

\* palabras_clave.split(',').map(kw => kw.trim())
splitKeywords(s) == LET parts == split(s) IN StrArr([i \in 1..Len(parts) |-> trim(parts[i])])

\* Date.prototype.toISOString of a stored date (kept as its calendar day)
toISOString(v) == v.d \o "T00:00:00.000Z"

\* String(x) of an article number
StringOf(v) ==
    CASE v.t = "string" -> v.s
      [] v.t = "number" -> NumberToString(v.n)

\* if (articulo && typeof articulo === 'object' && articulo.numero_articulo)
\*     articulo.numero_articulo = String(articulo.numero_articulo)
coerceArticulo(articulo) ==
    IF articulo.t = "object" /\ Truthy(Prop(articulo.o, "numero_articulo"))
    THEN Obj([articulo.o EXCEPT !.numero_articulo = Str(StringOf(articulo.o.numero_articulo))])
    ELSE articulo

\* A map callback that deletes the null/undefined keys and leaves the dates.
processRecordKeepDates(r) ==
    LET withId == [r EXCEPT !._id = Str(IdString(r))]
        kept == {k \in DOMAIN withId : withId[k].t \notin {"null", "undefined"}}
    IN  [k \in kept |-> withId[k]]

\* The body shared by both revisions of processedResults' map callback:
\* stringify the identity, delete null/undefined keys, stringify dates,
\* coerce the article numbers.
processRecord(r) ==
    LET withId == [r EXCEPT !._id = Str(IdString(r))]
        kept == {k \in DOMAIN withId : withId[k].t \notin {"null", "undefined"}}
        cleaned == [k \in kept |->
                      IF withId[k].t = "date" THEN Str(toISOString(withId[k])) ELSE withId[k]]
    IN  IF "articulos" \in kept /\ cleaned.articulos.t = "array"
        THEN [cleaned EXCEPT !.articulos =
                 Arr([i \in 1..Len(cleaned.articulos.a) |-> coerceArticulo(cleaned.articulos.a[i])])]
        ELSE cleaned

\* actions.ts: if (result.palabras_clave && typeof result.palabras_clave === 'string')
processRecordAction(r) ==
    LET result == processRecord(r)
    IN  IF Truthy(Prop(result, "palabras_clave")) /\ result.palabras_clave.t = "string"
        THEN [result EXCEPT !.palabras_clave = splitKeywords(result.palabras_clave.s)]
        ELSE result

\* search-documents.ts: if (typeof result.palabras_clave === 'string'), on uniqueResults
sanitizeKeywordsFlow(r) ==
    IF Prop(r, "palabras_clave").t = "string"
    THEN [r EXCEPT !.palabras_clave = splitKeywords(r.palabras_clave.s)]
    ELSE r

\* JSON.stringify of a value: what the text carries.  Dates and ObjectIds are
\* written as strings, undefined properties are left out, null stays.
RECURSIVE JsonValue(_)
JsonValue(v) ==
    CASE v.t = "date" -> Str(toISOString(v))
      [] v.t = "ObjectId" -> Str(v.hex)
      [] v.t = "array" -> Arr([i \in 1..Len(v.a) |-> JsonValue(v.a[i])])
      [] v.t = "object" ->
           Obj([k \in {f \in DOMAIN v.o : v.o[f].t # "undefined"} |-> JsonValue(v.o[k])])
      [] OTHER -> v

\* JSON.stringify(records, null, 2): a non-empty text ("[]" at least)
JSONstringify(records) ==
    [t |-> "json", v |-> [i \in 1..Len(records) |-> JsonValue(Obj(records[i]))]]

(***************************************************************************)
(* Bounds and inputs                                                       *)
(***************************************************************************)
\* Longest keyword list the classifier returns in the model.
MaxKeywords == 2

\* Keywords the classifier extracts: a circular number code and two words.
KeywordPool == {"06/20", "firma", "plazo"}

\* Keywords given to the compiler alone: a second number code, of one digit.
CompileKeywordPool == KeywordPool \cup {"5/20"}

KeywordLists(pool) == UNION {[1..n -> pool] : n \in 0..MaxKeywords}

Years == {2023}

CompileYears == Years \cup {2005}

Queries == {"Hola, busco la circular", "firma 06/20"}

\* z.string().min(1, ...).max(500, ...): the longest query the form accepts
MaxQueryLength == 500

\* The text of n copies of a character.
RECURSIVE Repeat(_, _)
Repeat(c, n) ==
    IF n = 0 THEN ""
    ELSE IF n = 1 THEN c
    ELSE LET half == Repeat(c, n \div 2)
         IN  half \o half \o (IF n % 2 = 1 THEN c ELSE "")

\* formData.get('query') at the limits of the form: no such field (null), the
\* empty text, a query of one character, and queries of the greatest accepted
\* length and one character more.
FormQueries ==
    {Null, Str(""), Str("x"), Str(Repeat("x", MaxQueryLength)),
     Str(Repeat("x", MaxQueryLength + 1))}

\* The form schema without the upper limit: z.string().min(1, ...).
formSchemaErrorsMinOnly(q) ==
    IF q.t # "string" THEN <<"Expected string, received null">>
    ELSE IF Len(q.s) < 1 THEN <<"La consulta es obligatoria.">>
    ELSE <<>>

\* formSchema.safeParse(rawFormData): the field errors of query, none on success
formSchemaErrors(q) ==
    IF q.t # "string" THEN <<"Expected string, received null">>
    ELSE IF Len(q.s) < 1 THEN <<"La consulta es obligatoria.">>
    ELSE IF Len(q.s) > MaxQueryLength
    THEN <<"La consulta no puede exceder los 500 caracteres.">>
    ELSE <<>>

InvalidFormAnswer == "Datos de formulario invalidos."

\* The messages of the errors a collaborator throws (e.message, possibly empty)
ErrorMessages == {"", "ECONNREFUSED"}

UnexpectedErrorAnswer == "Ocurrio un error inesperado."

\* e.message || 'Ocurrió un error inesperado.'
errorMessageOf(message) == IF message # "" THEN message ELSE UnexpectedErrorAnswer

IntentKinds == {"search_info", "count_items", "search_latest", "unknown"}

DocumentTypes == {"circular", "instruction", "regulation", "all"}

InstructivoTypes == {"interno", "externo", "ambos"}

\* An optional property: present with value v, or absent.
Opt(f, present, v) == IF present THEN f :> v ELSE <<>>

Absent == "(absent)"

\* The values of IntentSchema the classifier may return.  instructivoType is
\* produced only for search_latest, the one intent that reads it.
IntentOutputs ==
    {[intent |-> i]
        @@ Opt("documentType", dt # Absent, dt)
        @@ Opt("keywords", kw.has, kw.list)
        @@ Opt("year", y # 0, y)
        @@ Opt("instructivoType", it # Absent, it) :
     i \in IntentKinds,
     dt \in DocumentTypes \cup {Absent},
     kw \in {[has |-> FALSE, list |-> <<>>]}
            \cup {[has |-> TRUE, list |-> l] : l \in KeywordLists(KeywordPool)},
     y \in Years \cup {0},
     it \in {Absent} \cup InstructivoTypes}

\* What extractIntentPrompt returns as `output`: an Intent, or null.
ClassifierOutputs ==
    {Null} \cup {Obj(io) : io \in {x \in IntentOutputs :
                    "instructivoType" \in DOMAIN x => x.intent = "search_latest"}}

\* What generateAnswerPrompt returns as `output`.
SynthOutputs == {Null, Obj([answer |-> Str("")]), Obj([answer |-> Str("Respuesta")])}

NoIntentAnswer == "No pude determinar la intencion de su consulta. Por favor, intente reformularla."
GreetingAnswer == "Hola! Soy Digitalius, tu asistente de IA para la busqueda de documentos. En que puedo ayudarte hoy?"
CannotHelpAnswer == "No estoy seguro de como ayudar con eso. Por favor, intente una consulta diferente o mas especifica."
NoMatchAnswer == "No se encontraron documentos que coincidan con su busqueda."
FallbackAnswer == "No pude generar una respuesta basada en los documentos proporcionados."

(***************************************************************************)
(* Reading the Intent                                                      *)
(***************************************************************************)
\* const { documentType = 'all' } = intent
documentTypeOf(io) == IF "documentType" \in DOMAIN io THEN io.documentType ELSE "all"

\* keywords || []
keywordsOrEmpty(io) == IF "keywords" \in DOMAIN io THEN io.keywords ELSE <<>>

\* !keywords || keywords.length === 0
NoKeywords(io) == "keywords" \notin DOMAIN io \/ Len(io.keywords) = 0

yearOf(io) == IF "year" \in DOMAIN io THEN Num(io.year) ELSE Undefined

instructivoTypeOf(io) == IF "instructivoType" \in DOMAIN io THEN io.instructivoType ELSE Absent

\* A short-circuit test that looks at the intent kind only.
ShortCircuitsUnknownOnly(io) == io.intent = "unknown"

\* A short-circuit test that takes absent keywords for present ones
\* (keywords.length === 0 without the !keywords alternative).
ShortCircuitsPresentOnly(io) ==
    \/ io.intent = "unknown"
    \/ /\ io.intent # "search_latest"
       /\ "keywords" \in DOMAIN io /\ Len(io.keywords) = 0
       /\ ~Truthy(yearOf(io))

\* intent === 'unknown' ||
\*   (intent !== 'search_latest' && (!keywords || keywords.length === 0) && !year)
ShortCircuits(io) ==
    \/ io.intent = "unknown"
    \/ io.intent # "search_latest" /\ NoKeywords(io) /\ ~Truthy(yearOf(io))

\* input.query.toLowerCase().includes('hola')
IsGreeting(q) == includes(toLowerCase(q), "hola")

(***************************************************************************)
(* Dispatch plans: the store calls a request makes, in order               *)
(***************************************************************************)
collectionMap ==
    [circular |-> "circulares", instruction |-> "instructivos", regulation |-> "reglamentos"]

\* Object.values(collectionMap), or the one collection of documentType
collectionsToQuery(documentType) ==
    IF documentType = "all" THEN <<"circulares", "instructivos", "reglamentos">>
    ELSE <<collectionMap[documentType]>>

\* Every collection taken for the collection of notices.
docTypeForQueryCircular(collectionName) == "circular"

\* The request's documentType "all" handed to the compiler for every collection.
docTypeForQueryAll(collectionName) == "all"

\* Object.keys(collectionMap).find(key => collectionMap[key] === collectionName)
docTypeForQuery(collectionName) ==
    CHOOSE key \in DOMAIN collectionMap : collectionMap[key] = collectionName

FindCall(collectionName, query) ==
    [collection |-> collectionName, op |-> "find", query |-> query]

FindLatestCall(type) ==
    [collection |-> "instructivos", op |-> "findLatest", query |-> PrefixQuery(type), type |-> type]

LatestCircularesCall == [collection |-> "circulares", op |-> "latest", query |-> MatchAll]

\* A plan that asks for the external instruction first.
latestInstructionPlanExternoFirst(io) ==
    IF instructivoTypeOf(io) = "interno" THEN <<FindLatestCall("I")>>
    ELSE IF instructivoTypeOf(io) = "externo" THEN <<FindLatestCall("E")>>
    ELSE <<FindLatestCall("E"), FindLatestCall("I")>>

\* The findLatest calls of the search_latest branch on instructions
latestInstructionPlan(io) ==
    IF instructivoTypeOf(io) = "interno" THEN <<FindLatestCall("I")>>
    ELSE IF instructivoTypeOf(io) = "externo" THEN <<FindLatestCall("E")>>
    ELSE <<FindLatestCall("I"), FindLatestCall("E")>>

\* A plan that runs the generic search for the search_latest intents that
\* have no branch of their own.
ActionPlanGenericLatest(io) ==
    IF io.intent = "search_latest" /\ documentTypeOf(io) = "instruction"
    THEN latestInstructionPlan(io)
    ELSE IF io.intent = "search_latest" /\ documentTypeOf(io) = "circular"
    THEN <<LatestCircularesCall>>
    ELSE LET colls == collectionsToQuery(documentTypeOf(io))
         IN  [i \in 1..Len(colls) |->
                 FindCall(colls[i],
                          buildSearchQuery(keywordsOrEmpty(io), docTypeForQuery(colls[i]), yearOf(io)))]

\* handleSearch (actions.ts, lines 238-286)
ActionPlan(io) ==
    IF io.intent = "search_latest"
    THEN IF documentTypeOf(io) = "instruction" THEN latestInstructionPlan(io)
         ELSE IF documentTypeOf(io) = "circular" THEN <<LatestCircularesCall>>
         ELSE <<>>
    ELSE LET colls == collectionsToQuery(documentTypeOf(io))
         IN  [i \in 1..Len(colls) |->
                 FindCall(colls[i],
                          buildSearchQuery(keywordsOrEmpty(io), docTypeForQuery(colls[i]), yearOf(io)))]

\* searchDocumentsFlow (search-documents.ts, lines 255-300)
FlowPlan(io) ==
    IF io.intent = "search_latest" /\ documentTypeOf(io) = "instruction"
    THEN latestInstructionPlan(io)
    ELSE LET colls == collectionsToQuery(documentTypeOf(io))
         IN  [i \in 1..Len(colls) |->
                 FindCall(colls[i],
                          buildSearchQueryFlow(keywordsOrEmpty(io), docTypeForQuery(colls[i]), yearOf(io)))]

\* The records one store call returns
Exec(st, call) ==
    CASE call.op = "find" -> Find(st[call.collection], call.query)
      [] call.op = "findLatest" -> findLatest(st[call.collection], call.type)
      [] call.op = "latest" -> latestCirculares(st[call.collection])

\* All the store calls of a plan, their records concatenated in call order
\* (dbResults = dbResults.concat(collectionResults), dbResults.push(latest)).
FetchAll(st, plan) ==
    LET F[i \in 0..Len(plan)] == IF i = 0 THEN <<>> ELSE F[i - 1] \o Exec(st, plan[i])
    IN  F[Len(plan)]

\* search-documents.ts lines 309-321: uniqueResults with palabras_clave sanitized
flowSanitized(results) ==
    LET unique == uniqueResults(results)
    IN  [i \in 1..Len(unique) |-> sanitizeKeywordsFlow(unique[i])]

\* search-documents.ts lines 326-347: processedResults of the inline path
flowProcessedResults(results) ==
    LET sanitized == flowSanitized(results)
    IN  [i \in 1..Len(sanitized) |-> processRecord(sanitized[i])]

\* actions.ts lines 288-315: processedResults of the two-phase path
actionProcessedResults(results) ==
    LET unique == uniqueResults(results)
    IN  [i \in 1..Len(unique) |-> processRecordAction(unique[i])]

\* A zero-result test that never fires.
noResultsNever(results) == FALSE

\* if (results.length === 0) / if (!input.dbResults || input.dbResults.length === 0)
noResults(results) == Len(results) = 0

\* What the inline flow returns for an Intent that is not short-circuited
\* (search-documents.ts lines 246-361): kind of outcome and result list.
flowReturns(st, io) ==
    LET results == FetchAll(st, FlowPlan(io))
    IN  IF noResults(results) THEN [kind |-> "no_match", results |-> <<>>]
        ELSE [kind |-> "synthesized", results |-> flowProcessedResults(results)]

\* What handleSearch returns for an Intent that is not short-circuited
\* (actions.ts lines 232-324, second flow call part_003 lines 410-434).
actionReturns(st, io) ==
    LET processed == actionProcessedResults(FetchAll(st, ActionPlan(io)))
    IN  IF noResults(processed) THEN [kind |-> "no_match", results |-> <<>>]
        ELSE [kind |-> "synthesized", results |-> processed]

\* count_items of the counting revision (search-documents.ts lines 687-706):
\* { $unwind: "$articulos" }, { $count } on reglamentos, countDocuments() on
\* the other collections, summed over collectionsToQuery.
unwoundCount(d) ==
    LET articulos == Prop(d, "articulos")
    IN  CASE articulos.t = "array" -> Len(articulos.a)
          [] articulos.t \in {"undefined", "null"} -> 0
          [] OTHER -> 1

countItems(st, documentType) ==
    LET colls == collectionsToQuery(documentType)
        count(collectionName) ==
            IF collectionName = "reglamentos"
            THEN LET c == st[collectionName]
                     F[i \in 0..Len(c)] == IF i = 0 THEN 0 ELSE F[i - 1] + unwoundCount(c[i])
                 IN  F[Len(c)]
            ELSE Len(st[collectionName])
        T[i \in 0..Len(colls)] == IF i = 0 THEN 0 ELSE T[i - 1] + count(colls[i])
    IN  T[Len(colls)]

(***************************************************************************)
(* State                                                                   *)
(***************************************************************************)
VARIABLES
    formQuery,         \* formData.get('query'): a string, or null when the field is missing
    error,             \* the error and formErrors of the returned SearchState, if any
    path,              \* "inline": the flow does everything; "twophase": handleSearch + flow
    query,             \* the request's query text
    store,             \* the three collections
    pc,                \* where the request is
    intentOutput,      \* the classifier's output, once it returned
    firstResult,       \* two-phase: what the first flow call returned to handleSearch
    pending,           \* the store calls still to make, in order
    dbResults,         \* the records fetched so far, concatenated
    processedResults,  \* the deduplicated, normalized records
    classifierCalls,   \* number of extractIntentPrompt calls
    storeLog,          \* the store calls made, in order
    synthLog,          \* the inputs of the generateAnswerPrompt calls made
    data,              \* the payload returned to the caller
    outcome,           \* the kind of terminal outcome
    completion,        \* inline: what the flow's try block returned or threw, kept
                       \* while the finally block awaits client.close()
    cin,               \* compiler alone: the arguments
    compiledAction,    \* compiler alone: result of buildSearchQuery of actions.ts
    compiledFlow,      \* compiler alone: result of buildSearchQuery of search-documents.ts
    raw,               \* normalizer alone: the fetched records
    once,              \* normalizer alone: the records normalized
    twice,             \* normalizer alone: the normalized records normalized again
    revision,          \* connection: "cached" (cachedClient/cachedDb) or "promise" (clientPromise)
    cachedClient,      \* connection: the cached client, 0 for null
    cachedDb,          \* connection: the client whose db is cached, 0 for null
    clientPromise,     \* connection: the module's promise of a connected client
    clients,           \* connection: number of clients the getDb module created (ids 1..clients)
    connected,         \* connection: the clients whose connect() has completed
    reqPc,             \* connection: where each request's getDb call is
    reqClient          \* connection: each request's local client, then the client of its db

requestVars ==
    <<path, query, store, pc, intentOutput, firstResult, pending, dbResults,
      processedResults, classifierCalls, storeLog, synthLog, data, outcome, completion>>

compileVars == <<cin, compiledAction, compiledFlow>>

normalizeVars == <<raw, once, twice>>

connectVars ==
    <<revision, cachedClient, cachedDb, clientPromise, clients, connected, reqPc, reqClient>>

\* The variables of the specifications of single functions and of the
\* connection.
pureVars == <<compileVars, normalizeVars, connectVars>>

\* What the steps of a request after validation leave alone besides the
\* request's own variables.
otherVars == <<formQuery, error, pureVars>>

vars == <<requestVars, otherVars>>

NoError == [none |-> TRUE]

NoData == [none |-> TRUE]

NoCompletion == [none |-> TRUE]

NotCompiled == [done |-> FALSE]

RequestIdle(p) ==
    /\ pc = p
    /\ error = NoError
    /\ intentOutput = Undefined
    /\ firstResult = NoData
    /\ pending = <<>>
    /\ dbResults = <<>>
    /\ processedResults = <<>>
    /\ classifierCalls = 0
    /\ storeLog = <<>>
    /\ synthLog = <<>>
    /\ data = NoData
    /\ outcome = "none"
    /\ completion = NoCompletion

CompileIdle ==
    /\ cin = [keywords |-> <<>>, documentType |-> "all", year |-> Undefined]
    /\ compiledAction = NotCompiled
    /\ compiledFlow = NotCompiled

NotNormalized == [done |-> FALSE]

\* Most requests calling getDb in one process.
MaxRequests == 3

Requests == 1..MaxRequests

NoPromise == [none |-> TRUE]

\* No request has called getDb; the module of the "cached" revision is loaded.
ConnectIdle ==
    /\ revision = "cached"
    /\ cachedClient = 0
    /\ cachedDb = 0
    /\ clientPromise = NoPromise
    /\ clients = 0
    /\ connected = {}
    /\ reqPc = [r \in Requests |-> "idle"]
    /\ reqClient = [r \in Requests |-> 0]

NormalizeIdle ==
    /\ raw = <<>>
    /\ once = NotNormalized
    /\ twice = NotNormalized

\* A request arrives: a query, one of the two orchestrations, some store content.
Init ==
    /\ path \in {"inline", "twophase"}
    /\ formQuery \in {Str(q) : q \in Queries}
    /\ query = ""
    /\ store \in Stores
    /\ RequestIdle("submitted")
    /\ CompileIdle
    /\ NormalizeIdle
    \* the process is fresh, or an earlier handleSearch request has left its
    \* client and db in the cache of part_004
    /\ \E n \in (IF path = "twophase" THEN {0, 1} ELSE {0}) :
          /\ clients = n
          /\ cachedClient = n
          /\ cachedDb = n
          /\ connected = 1..n
    /\ revision = "cached"
    /\ clientPromise = NoPromise
    /\ reqPc = [r \in Requests |-> "idle"]
    /\ reqClient = [r \in Requests |-> 0]

(***************************************************************************)
(* The request                                                             *)
(***************************************************************************)
\* handleSearch: formSchema.safeParse(rawFormData); on failure the state with
\* error and formErrors is returned, on success the query goes on to the flow
\* (actions.ts lines 212-222).
Validate ==
    /\ pc = "submitted"
    /\ LET fieldErrors == formSchemaErrors(formQuery)
       IN  IF fieldErrors # <<>>
           THEN /\ error' = [error |-> InvalidFormAnswer,
                             formErrors |-> [query |-> fieldErrors]]
                /\ outcome' = "validation_error"
                /\ pc' = "done"
                /\ query' = query
           ELSE /\ query' = formQuery.s
                /\ pc' = "start"
                /\ UNCHANGED <<error, outcome>>
    /\ UNCHANGED <<formQuery, path, store, intentOutput, firstResult, pending, dbResults,
                   processedResults, classifierCalls, storeLog, synthLog, data,
                   completion, pureVars>>

\* A failure that ends the request without an error in the returned state.
CatchSilently(message, kind) ==
    /\ error' = error
    /\ outcome' = kind
    /\ pc' = "done"
    /\ UNCHANGED completion

\* A collaborator call throws.  In the inline flow, once the client exists
\* (line 246), the throw leaves the try block through finally { await
\* client.close(); } (lines 362-364) and is kept until the close has settled.
\* Otherwise it goes straight to catch (e) { console.error(e); return
\* { error: e.message || '...' } } of handleSearch (actions.ts lines 98-101
\* and 328-331): the request ends with an error and no data.
Catch(message, kind) ==
    IF path = "inline" /\ pc \in {"connect", "fetch", "synth"}
    THEN /\ completion' = [outcome |-> kind, error |-> [error |-> errorMessageOf(message)]]
         /\ pc' = "closing"
         /\ UNCHANGED <<error, outcome>>
    ELSE /\ error' = [error |-> errorMessageOf(message)]
         /\ outcome' = kind
         /\ pc' = "done"
         /\ UNCHANGED completion

\* The classifier call throws.
ClassifyFails(message) ==
    /\ pc = "start"
    /\ classifierCalls' = classifierCalls + 1
    /\ Catch(message, "error_classifier")
    /\ UNCHANGED <<formQuery, path, query, store, intentOutput, firstResult, pending,
                   dbResults, processedResults, storeLog, synthLog, data, pureVars>>

\* The awaited client.connect() throws: in the flow (inline, line 248), or in
\* connectToDatabase under await getDb() (two-phase, part_004 line 33).  In
\* the two-phase case the request waits on the client it created before the
\* await; the rejection leaves the clients and the cache as they are, whatever
\* another request has cached in the meantime.
ConnectFails(message) ==
    /\ \/ /\ pc = "connect"
          /\ path = "inline"
          /\ UNCHANGED reqPc
       \/ /\ pc = "getdb"
          /\ path = "twophase"
          /\ reqPc[1] = "connecting"
          /\ reqPc' = [reqPc EXCEPT ![1] = "failed"]
    /\ Catch(message, "error_store")
    /\ UNCHANGED <<formQuery, path, query, store, intentOutput, firstResult, pending,
                   dbResults, processedResults, classifierCalls, storeLog, synthLog,
                   data, compileVars, normalizeVars, revision, cachedClient, cachedDb,
                   clientPromise, clients, connected, reqClient>>

\* An awaited store call throws; the calls after it are not made.
QueryFails(message) ==
    /\ pc = "fetch"
    /\ pending # <<>>
    /\ storeLog' = Append(storeLog, Head(pending))
    /\ Catch(message, "error_store")
    /\ UNCHANGED <<formQuery, path, query, store, intentOutput, firstResult, pending,
                   dbResults, processedResults, classifierCalls, synthLog, data,
                   pureVars>>

\* The synthesizer call throws.
SynthFails(message) ==
    /\ pc = "synth"
    /\ Catch(message, "error_synth")
    /\ UNCHANGED <<formQuery, path, query, store, intentOutput, firstResult, pending,
                   dbResults, processedResults, classifierCalls, storeLog, synthLog,
                   data, pureVars>>

\* The flow returns a payload.  In the inline flow, once the client exists,
\* the return leaves the try block through finally { await client.close(); }
\* and the payload is kept until the close has settled.
Terminal(payload, kind) ==
    IF path = "inline" /\ pc \in {"connect", "fetch", "synth"}
    THEN /\ completion' = [outcome |-> kind, data |-> payload]
         /\ pc' = "closing"
         /\ UNCHANGED <<data, outcome>>
    ELSE /\ data' = payload
         /\ outcome' = kind
         /\ pc' = "done"
         /\ UNCHANGED completion

\* The classifier call of the first flow invocation and the code up to the
\* next await: no output, short-circuit, or go on to the store.
\* search-documents.ts lines 226-244 (inline), part_003 lines 437-461 (two-phase).
Classify(out) ==
    /\ pc = "start"
    /\ intentOutput' = out
    /\ classifierCalls' = classifierCalls + 1
    /\ IF ~Truthy(out)
       THEN /\ Terminal(IF path = "inline"
                        THEN [results |-> <<>>, answer |-> NoIntentAnswer]
                        ELSE [answer |-> NoIntentAnswer],
                        "no_intent")
            /\ firstResult' = IF path = "inline" THEN firstResult ELSE [answer |-> NoIntentAnswer]
       ELSE IF ShortCircuits(out.o)
       THEN IF IsGreeting(query)
            THEN /\ Terminal([results |-> <<>>, answer |-> GreetingAnswer], "greeting")
                 /\ firstResult' = IF path = "inline" THEN firstResult
                                   ELSE [results |-> <<>>, answer |-> GreetingAnswer]
            ELSE /\ Terminal(IF path = "inline"
                             THEN [results |-> <<>>, answer |-> CannotHelpAnswer]
                             ELSE [answer |-> CannotHelpAnswer],
                             "cannot_help")
                 /\ firstResult' = IF path = "inline" THEN firstResult
                                   ELSE [answer |-> CannotHelpAnswer]
       ELSE IF path = "inline"
       THEN /\ pc' = "connect"
            /\ UNCHANGED <<firstResult, data, outcome, completion>>
       ELSE /\ pc' = "context"
            /\ firstResult' = [answer |-> "", requiresContext |-> TRUE, intentAnalysis |-> out.o]
            /\ UNCHANGED <<data, outcome, completion>>
    /\ UNCHANGED <<path, query, store, pending, dbResults, processedResults,
                   storeLog, synthLog, otherVars>>

\* Inline: await client.connect(), then the dispatch plan (lines 246-300).
\* The flow's client is local to the call and no part of the module's
\* connection cache; it is closed in the finally block (FlowClose, CloseFails).
FlowConnect ==
    /\ pc = "connect"
    /\ path = "inline"
    /\ pending' = FlowPlan(intentOutput.o)
    /\ pc' = "fetch"
    /\ UNCHANGED <<path, query, store, intentOutput, firstResult, dbResults,
                   processedResults, classifierCalls, storeLog, synthLog, data,
                   outcome, completion, otherVars>>

\* Two-phase: if (result.requiresContext) { db = await getDb(); ... } (line
\* 233), up to the await inside connectToDatabase (part_004 lines 26-33).
\* The request is request 1 of the connection cache.  With both cached values
\* set, getDb returns the cached db and handleSearch goes on to the dispatch
\* plan (lines 234-286); otherwise a client is created and the request waits
\* for its connect().
ActionGetDb ==
    /\ pc = "context"
    /\ path = "twophase"
    /\ "requiresContext" \in DOMAIN firstResult /\ firstResult.requiresContext
    /\ reqPc[1] = "idle"
    /\ IF cachedClient # 0 /\ cachedDb # 0
       THEN /\ reqClient' = [reqClient EXCEPT ![1] = cachedDb]
            /\ reqPc' = [reqPc EXCEPT ![1] = "done"]
            /\ pending' = ActionPlan(firstResult.intentAnalysis)
            /\ pc' = "fetch"
            /\ UNCHANGED clients
       ELSE /\ clients' = clients + 1
            /\ reqClient' = [reqClient EXCEPT ![1] = clients + 1]
            /\ reqPc' = [reqPc EXCEPT ![1] = "connecting"]
            /\ pc' = "getdb"
            /\ UNCHANGED pending
    /\ UNCHANGED <<path, query, store, intentOutput, firstResult, dbResults,
                   processedResults, classifierCalls, storeLog, synthLog, data,
                   outcome, completion, formQuery, error, compileVars, normalizeVars, revision,
                   cachedClient, cachedDb, clientPromise, connected>>

\* Two-phase: the awaited client.connect() returns (part_004 lines 33-40).
\* The request's own client and its db are cached, over whatever is cached by
\* then, getDb returns that db and handleSearch goes on to the dispatch plan
\* (actions.ts lines 234-286).
ActionGetDbReturns ==
    /\ pc = "getdb"
    /\ path = "twophase"
    /\ reqPc[1] = "connecting"
    /\ connected' = connected \cup {reqClient[1]}
    /\ cachedClient' = reqClient[1]
    /\ cachedDb' = reqClient[1]
    /\ reqPc' = [reqPc EXCEPT ![1] = "done"]
    /\ pending' = ActionPlan(firstResult.intentAnalysis)
    /\ pc' = "fetch"
    /\ UNCHANGED <<path, query, store, intentOutput, firstResult, dbResults,
                   processedResults, classifierCalls, storeLog, synthLog, data,
                   outcome, completion, formQuery, error, compileVars, normalizeVars, revision,
                   clientPromise, clients, reqClient>>

\* One awaited store call; its records are appended to the results.
RunQuery ==
    /\ pc = "fetch"
    /\ pending # <<>>
    /\ dbResults' = dbResults \o Exec(store, Head(pending))
    /\ storeLog' = Append(storeLog, Head(pending))
    /\ pending' = Tail(pending)
    /\ UNCHANGED <<path, query, store, pc, intentOutput, firstResult, processedResults,
                   classifierCalls, synthLog, data, outcome, completion, otherVars>>

\* A loop test that lets the code after the loop run before the loop has ended.
FetchesDoneAlways == TRUE

\* The for loop over the collections (or the awaited findLatest calls) has
\* ended: no store call of the plan is left.
FetchesDone == pending = <<>>

\* A synthesizer input that always names all the document types.
SynthInputAllDocuments(documentType, context, intent, resultsCount) ==
    [query |-> query, documentType |-> "all", context |-> context,
     intent |-> intent, resultsCount |-> resultsCount]

SynthInput(documentType, context, intent, resultsCount) ==
    [query |-> query, documentType |-> documentType, context |-> context,
     intent |-> intent, resultsCount |-> resultsCount]

\* Inline, after the last fetch (lines 302-356): the zero-result answer, which
\* leaves the try block through the finally block (Terminal), or deduplicate,
\* sanitize, serialize, normalize and call the synthesizer.
FlowFinish ==
    /\ pc = "fetch"
    /\ path = "inline"
    /\ FetchesDone
    /\ \A k \in 1..Len(dbResults) : HasIdentity(dbResults[k])
    /\ IF noResults(dbResults)
       THEN /\ Terminal([results |-> <<>>, answer |-> NoMatchAnswer], "no_match")
            /\ UNCHANGED <<processedResults, synthLog>>
       ELSE LET context == JSONstringify(flowSanitized(dbResults))
                processed == flowProcessedResults(dbResults)
            IN  /\ processedResults' = processed
                /\ synthLog' = Append(synthLog,
                       SynthInput(documentTypeOf(intentOutput.o), context,
                                  intentOutput.o.intent, Len(processed)))
                /\ pc' = "synth"
                /\ UNCHANGED <<data, outcome, completion>>
    /\ UNCHANGED <<path, query, store, intentOutput, firstResult, pending, dbResults,
                   classifierCalls, storeLog, otherVars>>

\* Two-phase, after the last fetch (actions.ts lines 288-323): deduplicate,
\* normalize, and call the flow again with the context (part_003 lines
\* 410-428): the zero-result answer, or the synthesizer call.
ActionFinish ==
    /\ pc = "fetch"
    /\ path = "twophase"
    /\ FetchesDone
    /\ \A k \in 1..Len(dbResults) : HasIdentity(dbResults[k])
    /\ LET processed == actionProcessedResults(dbResults)
           context == JSONstringify(processed)
           intentAnalysis == firstResult.intentAnalysis
       IN  /\ Truthy(context)
           /\ processedResults' = processed
           /\ IF noResults(processed)
              THEN /\ Terminal([results |-> <<>>, answer |-> NoMatchAnswer], "no_match")
                   /\ UNCHANGED synthLog
              ELSE /\ synthLog' = Append(synthLog,
                          SynthInput(documentTypeOf(intentAnalysis), context,
                                     intentAnalysis.intent, Len(processed)))
                   /\ pc' = "synth"
                   /\ UNCHANGED <<data, outcome, completion>>
    /\ UNCHANGED <<path, query, store, intentOutput, firstResult, pending, dbResults,
                   classifierCalls, storeLog, otherVars>>

\* The synthesizer's answer as it came, empty when there is none.
answerOfAsGiven(out) ==
    IF out.t = "object" /\ Prop(out.o, "answer").t = "string" THEN out.o.answer.s ELSE ""

\* output?.answer || "No pude generar una respuesta ..."
answerOf(out) ==
    IF out.t = "object" /\ Truthy(Prop(out.o, "answer")) THEN out.o.answer.s
    ELSE FallbackAnswer

\* The synthesizer returns; the flow returns the results and the answer, in
\* the inline flow through the finally block (Terminal).
SynthReturn(out) ==
    /\ pc = "synth"
    /\ Terminal([results |-> processedResults, answer |-> answerOf(out)], "synthesized")
    /\ UNCHANGED <<path, query, store, intentOutput, firstResult, pending, dbResults,
                   processedResults, classifierCalls, storeLog, synthLog, otherVars>>

\* Inline: await client.close() returns (search-documents.ts line 363); what
\* the try block returned or threw now reaches handleSearch, which returns
\* { data: result } or the caught error (actions.ts lines 92-101).
FlowClose ==
    /\ pc = "closing"
    /\ IF "data" \in DOMAIN completion
       THEN /\ data' = completion.data
            /\ UNCHANGED error
       ELSE /\ error' = completion.error
            /\ UNCHANGED data
    /\ outcome' = completion.outcome
    /\ pc' = "done"
    /\ UNCHANGED <<path, query, store, intentOutput, firstResult, pending, dbResults,
                   processedResults, classifierCalls, storeLog, synthLog, completion,
                   formQuery, pureVars>>

\* Inline: await client.close() throws; the throw of the finally block takes
\* the place of what the try block returned or threw, and handleSearch
\* returns it as the error.
CloseFails(message) ==
    /\ pc = "closing"
    /\ Catch(message, "error_close")
    /\ UNCHANGED <<formQuery, path, query, store, intentOutput, firstResult, pending,
                   dbResults, processedResults, classifierCalls, storeLog, synthLog,
                   data, pureVars>>

Next ==
    \/ Validate
    \/ \E message \in ErrorMessages : ClassifyFails(message)
    \/ \E message \in ErrorMessages : ConnectFails(message)
    \/ \E message \in ErrorMessages : QueryFails(message)
    \/ \E message \in ErrorMessages : SynthFails(message)
    \/ \E out \in ClassifierOutputs : Classify(out)
    \/ FlowConnect
    \/ ActionGetDb
    \/ ActionGetDbReturns
    \/ RunQuery
    \/ FlowFinish
    \/ ActionFinish
    \/ \E out \in SynthOutputs : SynthReturn(out)
    \/ FlowClose
    \/ \E message \in ErrorMessages : CloseFails(message)

Spec == Init /\ [][Next]_vars

\* The same requests over a store with records that lack fields.  The filter
\* callback evaluates r._id.toString() on every fetched record: on a record
\* without _id it throws a TypeError, which the catch of handleSearch turns
\* into the returned error.
TypeErrorMessage == "Cannot read properties of undefined (reading 'toString')"

NormalizeFails ==
    /\ pc = "fetch"
    /\ FetchesDone
    /\ \E k \in 1..Len(dbResults) : ~HasIdentity(dbResults[k])
    /\ Catch(TypeErrorMessage, "error_normalize")
    /\ UNCHANGED <<formQuery, path, query, store, intentOutput, firstResult, pending,
                   dbResults, processedResults, classifierCalls, storeLog, synthLog,
                   data, pureVars>>

InitMalformed ==
    /\ path \in {"inline", "twophase"}
    /\ formQuery = Str("firma 06/20")
    /\ query = ""
    /\ store = StoreMalformed
    /\ RequestIdle("submitted")
    /\ CompileIdle
    /\ NormalizeIdle
    /\ ConnectIdle

NextMalformed == Next \/ NormalizeFails

SpecMalformed == InitMalformed /\ [][NextMalformed]_vars

\* The same requests with the query field at the limits of the form.
InitForm ==
    /\ path \in {"inline", "twophase"}
    /\ formQuery \in FormQueries
    /\ query = ""
    /\ store = StoreSmall
    /\ RequestIdle("submitted")
    /\ CompileIdle
    /\ NormalizeIdle
    /\ ConnectIdle

SpecForm == InitForm /\ [][Next]_vars

\* The same requests over the stores of the latest branches.
InitLatest ==
    /\ path \in {"inline", "twophase"}
    /\ formQuery = Str("firma 06/20")
    /\ query = ""
    /\ store \in LatestStores
    /\ RequestIdle("submitted")
    /\ CompileIdle
    /\ NormalizeIdle
    /\ ConnectIdle

SpecLatest == InitLatest /\ [][Next]_vars

(***************************************************************************)
(* The compiler alone: arguments drawn from bounded sets, each revision of *)
(* buildSearchQuery applied to them.                                       *)
(***************************************************************************)
InitCompile ==
    /\ formQuery = Str("firma 06/20")
    /\ path = "inline"
    /\ query = "firma 06/20"
    /\ store = StoreFull
    /\ RequestIdle("idle")
    /\ cin \in {[keywords |-> k, documentType |-> dt, year |-> y] :
                  k \in KeywordLists(CompileKeywordPool),
                  dt \in DocumentTypes,
                  y \in {Undefined} \cup {Num(n) : n \in CompileYears}}
    /\ compiledAction = NotCompiled
    /\ compiledFlow = NotCompiled
    /\ NormalizeIdle
    /\ ConnectIdle

CompileAction ==
    /\ compiledAction = NotCompiled
    /\ compiledAction' =
           [done |-> TRUE, query |-> buildSearchQuery(cin.keywords, cin.documentType, cin.year)]
    /\ UNCHANGED <<requestVars, formQuery, error, normalizeVars, connectVars, cin, compiledFlow>>

CompileFlow ==
    /\ compiledFlow = NotCompiled
    /\ compiledFlow' =
           [done |-> TRUE, query |-> buildSearchQueryFlow(cin.keywords, cin.documentType, cin.year)]
    /\ UNCHANGED <<requestVars, formQuery, error, normalizeVars, connectVars, cin, compiledAction>>

NextCompile == CompileAction \/ CompileFlow

SpecCompile == InitCompile /\ [][NextCompile]_vars

(***************************************************************************)
(* The normalizer alone: fetched record lists drawn from the record        *)
(* shapes, normalized as one of the two paths does, and normalized again.  *)
(***************************************************************************)
\* Longest fetched list.
MaxRecords == 3

RecordLists ==
    UNION {[1..n -> RecordPool] : n \in 0..MaxRecords}

\* uniqueResults and processedResults of the path
normalizeResults(p, results) ==
    IF p = "inline" THEN flowProcessedResults(results) ELSE actionProcessedResults(results)

InitNormalize ==
    /\ formQuery = Str("firma 06/20")
    /\ path \in {"inline", "twophase"}
    /\ query = "firma 06/20"
    /\ store = StoreSmall
    /\ RequestIdle("idle")
    /\ CompileIdle
    /\ raw \in RecordLists
    /\ once = NotNormalized
    /\ twice = NotNormalized
    /\ ConnectIdle

NormalizeOnce ==
    /\ ~once.done
    /\ once' = [done |-> TRUE, out |-> normalizeResults(path, raw)]
    /\ UNCHANGED <<requestVars, formQuery, error, compileVars, connectVars, raw, twice>>

NormalizeAgain ==
    /\ once.done
    /\ ~twice.done
    /\ twice' = [done |-> TRUE, out |-> normalizeResults(path, once.out)]
    /\ UNCHANGED <<requestVars, formQuery, error, compileVars, connectVars, raw, once>>

NextNormalize == NormalizeOnce \/ NormalizeAgain

SpecNormalize == InitNormalize /\ [][NextNormalize]_vars

(***************************************************************************)
(* The connection to the store: requests of one process calling getDb,     *)
(* interleaved at the awaits.  Two revisions of the module: "cached"       *)
(* (part_004: cachedClient and cachedDb, filled after the first connect)   *)
(* and "promise" (answer-queries.ts lines 93-113: one clientPromise made   *)
(* when the module is loaded).                                             *)
(***************************************************************************)
InitConnect ==
    /\ formQuery = Str("firma 06/20")
    /\ path = "twophase"
    /\ query = "firma 06/20"
    /\ store = StoreSmall
    /\ RequestIdle("idle")
    /\ CompileIdle
    /\ NormalizeIdle
    /\ revision \in {"cached", "promise"}
    /\ cachedClient = 0
    /\ cachedDb = 0
    /\ reqPc = [r \in Requests |-> "idle"]
    /\ reqClient = [r \in Requests |-> 0]
    /\ connected = {}
    /\ IF revision = "promise"
       THEN \* const client = new MongoClient(MONGODB_URI); clientPromise = client.connect()
            /\ clients = 1
            /\ clientPromise = [client |-> 1, state |-> "pending"]
       ELSE /\ clients = 0
            /\ clientPromise = NoPromise

notConnectVars == <<requestVars, formQuery, error, compileVars, normalizeVars>>

\* connectToDatabase up to its await: the cached pair if both are set,
\* otherwise a new client whose connect() is awaited.
ConnectToDatabase(r) ==
    /\ revision = "cached"
    /\ reqPc[r] = "idle"
    /\ IF cachedClient # 0 /\ cachedDb # 0
       THEN /\ reqClient' = [reqClient EXCEPT ![r] = cachedDb]
            /\ reqPc' = [reqPc EXCEPT ![r] = "done"]
            /\ UNCHANGED clients
       ELSE /\ clients' = clients + 1
            /\ reqClient' = [reqClient EXCEPT ![r] = clients + 1]
            /\ reqPc' = [reqPc EXCEPT ![r] = "connecting"]
    /\ UNCHANGED <<notConnectVars, revision, cachedClient, cachedDb, clientPromise, connected>>

\* await client.connect() returns: the client and its db are cached and returned.
ConnectReturns(r) ==
    /\ revision = "cached"
    /\ reqPc[r] = "connecting"
    /\ connected' = connected \cup {reqClient[r]}
    /\ cachedClient' = reqClient[r]
    /\ cachedDb' = reqClient[r]
    /\ reqPc' = [reqPc EXCEPT ![r] = "done"]
    /\ UNCHANGED <<notConnectVars, revision, clientPromise, clients, reqClient>>

\* await client.connect() throws: getDb rejects, the cache is left as it was.
ConnectThrows(r) ==
    /\ revision = "cached"
    /\ reqPc[r] = "connecting"
    /\ reqPc' = [reqPc EXCEPT ![r] = "failed"]
    /\ UNCHANGED <<notConnectVars, revision, cachedClient, cachedDb, clientPromise, clients,
                   connected, reqClient>>

\* The module's client.connect() settles.
PromiseSettles(ok) ==
    /\ revision = "promise"
    /\ clientPromise.state = "pending"
    /\ clientPromise' = [clientPromise EXCEPT !.state = IF ok THEN "fulfilled" ELSE "rejected"]
    /\ connected' = IF ok THEN connected \cup {clientPromise.client} ELSE connected
    /\ UNCHANGED <<notConnectVars, revision, cachedClient, cachedDb, clients, reqPc, reqClient>>

\* getDb: const client = await clientPromise
GetDbAwaits(r) ==
    /\ revision = "promise"
    /\ reqPc[r] = "idle"
    /\ reqPc' = [reqPc EXCEPT ![r] = "awaiting"]
    /\ UNCHANGED <<notConnectVars, revision, cachedClient, cachedDb, clientPromise, clients,
                   connected, reqClient>>

\* The awaited promise has settled: return client.db(...), or reject.
GetDbResumes(r) ==
    /\ revision = "promise"
    /\ reqPc[r] = "awaiting"
    /\ clientPromise.state # "pending"
    /\ IF clientPromise.state = "fulfilled"
       THEN /\ reqClient' = [reqClient EXCEPT ![r] = clientPromise.client]
            /\ reqPc' = [reqPc EXCEPT ![r] = "done"]
       ELSE /\ reqPc' = [reqPc EXCEPT ![r] = "failed"]
            /\ UNCHANGED reqClient
    /\ UNCHANGED <<notConnectVars, revision, cachedClient, cachedDb, clientPromise, clients,
                   connected>>

NextConnect ==
    \/ \E r \in Requests : ConnectToDatabase(r)
    \/ \E r \in Requests : ConnectReturns(r)
    \/ \E r \in Requests : ConnectThrows(r)
    \/ \E ok \in BOOLEAN : PromiseSettles(ok)
    \/ \E r \in Requests : GetDbAwaits(r)
    \/ \E r \in Requests : GetDbResumes(r)

SpecConnect == InitConnect /\ [][NextConnect]_vars

(***************************************************************************)
(* Properties                                                              *)
(***************************************************************************)
\* The classified Intent of the request (once the classifier returned one).
HasIntent == intentOutput.t = "object"

\* The store calls the request's path makes for its Intent.
PlanOfRequest ==
    IF path = "inline" THEN FlowPlan(intentOutput.o) ELSE ActionPlan(intentOutput.o)

\* The dispatch step of the request has completed: every store call of the
\* plan has returned.
Dispatched ==
    \/ pc = "synth"
    \/ pc = "done" /\ outcome \in {"no_match", "synthesized", "error_synth"}

\* C1: the result list returned for a request never contains two records
\* with the same identity (_id rendered as a string), whatever the intent,
\* the store content and the orchestration.
C1_UniqueIdentities ==
    "results" \in DOMAIN data =>
        \A i, j \in 1..Len(data.results) :
            i # j => IdString(data.results[i]) # IdString(data.results[j])

\* A request that fetched the same identity more than once and returned
\* several records.
C1_Witness ==
    /\ pc = "done"
    /\ outcome = "synthesized"
    /\ Len(data.results) >= 2
    /\ Len(data.results) < Len(dbResults)

\* The case of C2: the intent is unknown, or it is not search_latest and has
\* neither keywords nor a year.
C2_Case ==
    /\ HasIntent
    /\ LET io == intentOutput.o
       IN  \/ io.intent = "unknown"
           \/ /\ io.intent # "search_latest"
              /\ ("keywords" \notin DOMAIN io \/ io.keywords = <<>>)
              /\ "year" \notin DOMAIN io

\* The query contains the greeting token, in any letter case.
HasGreetingToken(q) ==
    \E i \in 1..Len(q) : i + 3 <= Len(q) /\ toLowerCase(SubSeq(q, i, i + 3)) = "hola"

\* C2: in the case above the request has ended, right after classification,
\* with the greeting reply if the query contains the greeting token and the
\* cannot-help reply otherwise, without any store call or synthesizer call.
C2_ShortCircuit ==
    C2_Case =>
        /\ pc = "done"
        /\ storeLog = <<>> /\ pending = <<>> /\ dbResults = <<>>
        /\ synthLog = <<>>
        /\ IF HasGreetingToken(query)
           THEN outcome = "greeting" /\ data.answer = GreetingAnswer
           ELSE outcome = "cannot_help" /\ data.answer = CannotHelpAnswer

\* A count_items request without keywords and year, answered "cannot help".
C2_Witness ==
    /\ pc = "done"
    /\ HasIntent
    /\ intentOutput.o.intent = "count_items"
    /\ "keywords" \notin DOMAIN intentOutput.o
    /\ outcome = "cannot_help"
    /\ path = "twophase"

\* The dispatch step of the request has run to its end: the connection was
\* obtained and every store call of the plan has been made and has returned,
\* whatever followed.
DispatchYielded ==
    /\ HasIntent
    /\ pc \in {"synth", "closing", "done"}
    /\ pending = <<>>
    /\ storeLog = PlanOfRequest
    /\ IF path = "twophase" THEN reqPc[1] = "done" ELSE storeLog # <<>>

ZeroRecordsCase ==
    /\ DispatchYielded
    /\ dbResults = <<>>
    /\ intentOutput.o.intent # "count_items"

C4_NoMatchAllDispatch ==
    HasIntent =>
        LET io == intentOutput.o
            noKeywords == "keywords" \notin DOMAIN io \/ io.keywords = <<>>
            noYear == "year" \notin DOMAIN io
        IN  /\ io.intent # "search_latest" =>
                  \A i \in 1..Len(storeLog) : storeLog[i].query # MatchAll
            /\ \A i \in 1..Len(storeLog) :
                  (storeLog[i].op = "find" /\ storeLog[i].query = MatchAll) =>
                      noKeywords /\ noYear
            /\ (io.intent # "search_latest" /\ noKeywords /\ noYear) =>
                  storeLog = <<>> /\ pending = <<>> /\ pc = "done"

\* A count_items request with a year and no keywords that queried all three
\* collections.
C4_Witness ==
    /\ pc = "done"
    /\ HasIntent
    /\ intentOutput.o.intent = "count_items"
    /\ "keywords" \notin DOMAIN intentOutput.o
    /\ "year" \in DOMAIN intentOutput.o
    /\ Len(storeLog) = 3

\* The stored instructions whose title starts with the letter.
WithLetter(letter) ==
    {i \in 1..Len(store.instructivos) :
        /\ "titulo" \in DOMAIN store.instructivos[i]
        /\ store.instructivos[i].titulo.t = "string"
        /\ startsWith(store.instructivos[i].titulo.s, letter)}

TitleNumber(i) == getNumber(store.instructivos[i].titulo.s)

\* The letters a search_latest request on instructions asks for.
RequestedLetters(io) ==
    IF "instructivoType" \in DOMAIN io /\ io.instructivoType = "interno" THEN {"I"}
    ELSE IF "instructivoType" \in DOMAIN io /\ io.instructivoType = "externo" THEN {"E"}
    ELSE {"I", "E"}

\* C9: search_latest on instructions: for each requested letter that some
\* stored title starts with, the fetched records hold exactly one record of
\* that letter; its number is the maximum over the titles of that letter,
\* and among the titles with that maximum it is the first in store order.
C9_LatestInstruction ==
    (/\ HasIntent
     /\ intentOutput.o.intent = "search_latest"
     /\ "documentType" \in DOMAIN intentOutput.o
     /\ intentOutput.o.documentType = "instruction"
     /\ Dispatched) =>
        \A letter \in RequestedLetters(intentOutput.o) :
            WithLetter(letter) # {} =>
                LET got == {k \in 1..Len(dbResults) :
                              startsWith(dbResults[k].titulo.s, letter)}
                IN  /\ Cardinality(got) = 1
                    /\ \E m \in WithLetter(letter) :
                          /\ \A k \in got : dbResults[k] = store.instructivos[m]
                          /\ \A j \in WithLetter(letter) : TitleNumber(j) <= TitleNumber(m)
                          /\ \A j \in WithLetter(letter) :
                                TitleNumber(j) = TitleNumber(m) => m <= j

\* Titles I10, I141, E3, "I141 bis", ... with instructivoType interno: the
\* first I141 record is returned.
C9_Witness ==
    /\ pc = "done"
    /\ store = StoreFull
    /\ HasIntent
    /\ intentOutput.o.intent = "search_latest"
    /\ "instructivoType" \in DOMAIN intentOutput.o
    /\ intentOutput.o.instructivoType = "interno"
    /\ "documentType" \in DOMAIN intentOutput.o
    /\ intentOutput.o.documentType = "instruction"
    /\ outcome = "synthesized"
    /\ Len(data.results) = 1
    /\ data.results[1].titulo = Str("I141 - Plazo")

(***************************************************************************)
(* Properties of the compiler                                              *)
(***************************************************************************)
\* The results of the two revisions of buildSearchQuery for the arguments.
Compiled == {c \in {compiledAction, compiledFlow} : c.done}

\* Some keyword of the arguments has the form d/dd or dd/dd.
IdentifierPositions == {i \in 1..Len(cin.keywords) : circularNumberRegex(cin.keywords[i])}

\* The identifier shortcut is due: such a keyword, and circular or all.
IdentifierCase == IdentifierPositions # {} /\ cin.documentType \in {"circular", "all"}

\* The keyword occurs, in any letter case, in one of the record's fields
\* applicable to the document type.
KeywordOccurs(keyword, d) ==
    \E j \in 1..Len(uniqueTextSearchFields(cin.documentType)) :
        \E text \in PathStrings(Obj(d), uniqueTextSearchFields(cin.documentType)[j]) :
            includes(toLowerCase(text), toLowerCase(keyword))

\* C5: buildSearchQuery with two or more keywords (and no identifier
\* shortcut) returns a predicate that a record satisfies only if every keyword
\* matches at least one field applicable to the document type; a record
\* matching only one of the keywords is not selected.
C5_ConjunctiveKeywords ==
    \A c \in Compiled :
        (Len(cin.keywords) >= 2 /\ ~IdentifierCase) =>
            \A d \in DocPool :
                Matches(c.query, d) =>
                    \A i \in 1..Len(cin.keywords) : KeywordOccurs(cin.keywords[i], d)

\* The first keyword of the identifier form.
FirstIdentifier ==
    cin.keywords[CHOOSE i \in IdentifierPositions : \A j \in IdentifierPositions : i <= j]

\* C6: whenever some keyword has the form of one or two digits, a slash and
\* two digits and the document type is circular or all, the predicate is
\* exactly: type label like CIRCULAR and number equal to the first such
\* keyword; it holds no clause of another keyword and no year clause, and it
\* selects exactly the records with that number and a CIRCULAR-like label.
C6_IdentifierShortcut ==
    \A c \in Compiled :
        IdentifierCase =>
            /\ c.query =
                 [op |-> "fields",
                  args |-> <<[op |-> "regex", field |-> "tipo_normativa", regex |-> "CIRCULAR"],
                             [op |-> "eq", field |-> "numero", value |-> FirstIdentifier]>>]
            /\ \A d \in DocPool :
                  Matches(c.query, d) <=>
                      /\ \E n \in PathStrings(Obj(d), "numero") : n = FirstIdentifier
                      /\ \E l \in PathStrings(Obj(d), "tipo_normativa") :
                            includes(toLowerCase(l), "circular")

\* Two identifier keywords, a year, document type all: both revisions compiled.
C6_Witness ==
    /\ compiledAction.done /\ compiledFlow.done
    /\ cin.keywords = <<"5/20", "06/20">>
    /\ cin.documentType = "all"
    /\ cin.year = Num(2023)
    /\ compiledAction.query.args[2].value = "5/20"

\* The year's decimal text and its last two digits.
YearTexts ==
    CASE cin.year = Num(2023) -> [long |-> "2023", short |-> "23"]
      [] cin.year = Num(2005) -> [long |-> "2005", short |-> "05"]

\* The year clause C7 describes.
ExpectedYearClause ==
    LET byDate == [op |-> "regex", field |-> "fecha_expedicion",
                   regex |-> "^" \o YearTexts.long]
        byNumber == [op |-> "and",
                     args |-> <<[op |-> "regex", field |-> "tipo_normativa", regex |-> "CIRCULAR"],
                                [op |-> "regex", field |-> "numero",
                                 regex |-> "/" \o YearTexts.short \o "$"]>>]
    IN  [op |-> "or",
         args |-> IF cin.documentType \in {"circular", "all"} THEN <<byDate, byNumber>>
                  ELSE <<byDate>>]

\* The record has a textual issue date starting with the year, or (circular
\* or all only) a CIRCULAR-like label and a number ending in /YY.
YearSatisfied(d) ==
    \/ \E f \in PathStrings(Obj(d), "fecha_expedicion") : startsWith(f, YearTexts.long)
    \/ /\ cin.documentType \in {"circular", "all"}
       /\ \E l \in PathStrings(Obj(d), "tipo_normativa") : includes(toLowerCase(l), "circular")
       /\ \E n \in PathStrings(Obj(d), "numero") : endsWith(n, "/" \o YearTexts.short)

\* C7: with a year and no identifier shortcut the predicate holds the year
\* clause: alone when the keyword list is empty, otherwise as the last
\* operand of an AND with the keyword clauses; the year clause is the issue
\* date starting with the year or, for circular or all only, a CIRCULAR-like
\* label with a number ending in "/" and the year's last two digits.
C7_YearClause ==
    \A c \in Compiled :
        (cin.year # Undefined /\ ~IdentifierCase) =>
            /\ IF cin.keywords = <<>>
               THEN c.query = ExpectedYearClause
               ELSE /\ c.query.op = "and"
                    /\ Len(c.query.args) >= 2
                    /\ c.query.args[Len(c.query.args)] = ExpectedYearClause
                    /\ \A i \in 1..(Len(c.query.args) - 1) : c.query.args[i].op = "or"
            /\ \A d \in DocPool :
                  /\ Matches(c.query, d) => YearSatisfied(d)
                  /\ cin.keywords = <<>> => (YearSatisfied(d) => Matches(c.query, d))

\* compile([], circular, 2023): the number must end in /23 in one alternative.
C7_Witness ==
    /\ compiledAction.done /\ compiledFlow.done
    /\ cin.keywords = <<>>
    /\ cin.documentType = "circular"
    /\ cin.year = Num(2023)
    /\ compiledFlow.query.args[2].args[2].regex = "/23$"

(***************************************************************************)
(* Properties of count_items and of the two orchestrations                 *)
(***************************************************************************)
\* C8: for count_items the dispatcher produces one integer (documents of
\* circulares and instructivos, unwound articles of reglamentos, summed over
\* the requested collections); a dispatched count_items request calls the
\* synthesizer, and with that integer as its context, not a record list.
C8_CountIsInteger ==
    (HasIntent /\ intentOutput.o.intent = "count_items") =>
        /\ \A i \in 1..Len(synthLog) :
              synthLog[i].context =
                  Str(NumberToString(countItems(store, documentTypeOf(intentOutput.o))))
        /\ (Dispatched /\ pc = "done" /\ outcome # "error_synth") => outcome = "synthesized"

\* C10: the inline and the two-phase orchestration reach the same kind of
\* terminal outcome and return the same result list: a finished dispatched
\* request has the outcome and the results the other orchestration returns
\* for the same Intent and store.
C10_OrchestrationsEquivalent ==
    (HasIntent /\ pc = "done" /\ outcome \in {"no_match", "synthesized"}) =>
        LET other == IF path = "inline" THEN actionReturns(store, intentOutput.o)
                     ELSE flowReturns(store, intentOutput.o)
        IN  /\ outcome = other.kind
            /\ data.results = other.results

\* A finished request has the outcome and results its own orchestration's
\* function gives (the step-by-step run and the function agree).
RunAgreesWithReturns ==
    (HasIntent /\ pc = "done" /\ outcome \in {"no_match", "synthesized"}) =>
        LET own == IF path = "inline" THEN flowReturns(store, intentOutput.o)
                   ELSE actionReturns(store, intentOutput.o)
        IN  /\ outcome = own.kind
            /\ data.results = own.results

(***************************************************************************)
(* Properties of the normalizer                                            *)
(***************************************************************************)
\* C11: normalization is idempotent: fetched records of one identity
\* normalize to exactly one record, and normalizing the normalized records again
\* returns an equal record list.
C11_NormalizationIdempotent ==
    /\ once.done =>
          \A i \in 1..Len(raw) :
              Cardinality({k \in 1..Len(once.out) :
                              once.out[k]._id = Str(IdString(raw[i]))}) = 1
    /\ twice.done => twice.out = once.out

\* Two fetched records of one identity, a date and a delimited keyword string,
\* and a section with numeric article numbers, normalized twice.
C11_Witness ==
    /\ twice.done
    /\ raw = <<normInstructivo, normDuplicado, normReglamento>>
    /\ Len(once.out) = 2
    /\ once.out[1].palabras_clave = StrArr(<<"turno", "feria", "guardia">>)

\* A value that is neither null, undefined nor a date, and holds none at any
\* depth of its array elements and object properties.
RECURSIVE Pruned(_)
Pruned(v) ==
    /\ v.t \notin {"null", "undefined", "date"}
    /\ v.t = "array" => \A i \in 1..Len(v.a) : Pruned(v.a[i])
    /\ v.t = "object" => \A f \in DOMAIN v.o : Pruned(v.o[f])

C12_NestedNullCase ==
    /\ once.done
    /\ \E k \in 1..Len(once.out) :
          /\ "articulos" \in DOMAIN once.out[k]
          /\ once.out[k].articulos.t = "array"
          /\ \E i \in 1..Len(once.out[k].articulos.a) : once.out[k].articulos.a[i].t = "null"

C13_Validation ==
    pc # "submitted" =>
        IF formQuery.t # "string" \/ Len(formQuery.s) = 0 \/ Len(formQuery.s) > 500
        THEN /\ pc = "done"
             /\ outcome = "validation_error"
             /\ DOMAIN error = {"error", "formErrors"}
             /\ error.formErrors.query # <<>>
             /\ data = NoData
             /\ classifierCalls = 0 /\ storeLog = <<>> /\ synthLog = <<>>
        ELSE /\ outcome # "validation_error"
             /\ "formErrors" \notin DOMAIN error
             /\ query = formQuery.s
             /\ (pc = "start" /\ classifierCalls = 0) \/ classifierCalls = 1

\* A query of 501 characters, rejected.
C13_Witness ==
    /\ pc = "done"
    /\ outcome = "validation_error"
    /\ formQuery.t = "string"
    /\ Len(formQuery.s) = 501
    /\ error.formErrors.query = <<"La consulta no puede exceder los 500 caracteres.">>

\* C14: when the classification call has failed or returned no Intent, the
\* request has ended as an unknown intent does: with the greeting or the
\* cannot-help answer, without store access and without an error.
C14_ClassificationFallback ==
    (classifierCalls = 1 /\ ~HasIntent) =>
        /\ pc = "done"
        /\ outcome \in {"greeting", "cannot_help"}
        /\ error = NoError
        /\ "answer" \in DOMAIN data
        /\ data.answer = (IF HasGreetingToken(query) THEN GreetingAnswer ELSE CannotHelpAnswer)
        /\ storeLog = <<>>

\* The returned state of a failed request: one non-empty error message and
\* no data; the calls made are those up to the failed one, each made once.  A
\* failed connect or fetch comes before any synthesizer call; the close of the
\* inline flow's client comes after the flow's work, so when it fails the
\* synthesizer may have been called, once.
C15_Caught ==
    /\ outcome \in {"error_classifier", "error_store", "error_synth", "error_close"} =>
          /\ pc = "done"
          /\ DOMAIN error = {"error"}
          /\ error.error # ""
          /\ data = NoData
          /\ classifierCalls = 1
    /\ outcome = "error_classifier" => storeLog = <<>> /\ synthLog = <<>>
    /\ outcome = "error_store" =>
          /\ synthLog = <<>>
          /\ Len(storeLog) <= Len(PlanOfRequest)
          /\ storeLog = SubSeq(PlanOfRequest, 1, Len(storeLog))
    /\ outcome = "error_close" =>
          /\ path = "inline"
          /\ Len(synthLog) <= 1
          /\ Len(storeLog) <= Len(PlanOfRequest)
          /\ storeLog = SubSeq(PlanOfRequest, 1, Len(storeLog))
    /\ outcome = "error_synth" => Len(synthLog) = 1
    /\ (pc = "done" /\ error = NoError) =>
          outcome \in {"no_intent", "greeting", "cannot_help", "no_match", "synthesized"}

\* A store call of the request has failed: the connect or a fetch (returned,
\* or kept while the inline flow closes its client), or the close.
StoreFailed ==
    \/ outcome \in {"error_store", "error_close"}
    \/ pc = "closing" /\ completion.outcome = "error_store"

\* C15: a failure of the classifier, the store or the synthesizer ends the
\* request with a returned state that carries one non-empty error message and
\* no data; the failed call is made once; and in no step taken after a store
\* call has failed is the classifier, the store or the synthesizer called.
C15_FailuresCaught ==
    /\ []C15_Caught
    /\ [][StoreFailed => UNCHANGED <<classifierCalls, storeLog, synthLog>>]_vars

\* The second of three store calls of handleSearch failed with an empty message.
C15_Witness ==
    /\ pc = "done"
    /\ path = "twophase"
    /\ outcome = "error_store"
    /\ Len(storeLog) = 2
    /\ error = [error |-> UnexpectedErrorAnswer]

(***************************************************************************)
(* Properties of the connection                                            *)
(***************************************************************************)
\* C16: under every interleaving of the requests' getDb calls at most one
\* store client is created and connected in the process, and every request
\* that got a connection got that same one.
C16_SingleConnection ==
    /\ clients <= 1
    /\ Cardinality(connected) <= 1
    /\ \A r1, r2 \in Requests :
          (reqPc[r1] = "done" /\ reqPc[r2] = "done") => reqClient[r1] = reqClient[r2]

(***************************************************************************)
(* Properties of the returned payload                                      *)
(***************************************************************************)
\* C17: every request that ended without an error (greeting, cannot-help,
\* no classifier output, no matching documents, synthesized answer) returned
\* a payload with both a results list and an answer.
C17_ResultsAndAnswer ==
    (pc = "done" /\ error = NoError) =>
        /\ outcome \in {"no_intent", "greeting", "cannot_help", "no_match", "synthesized"}
        /\ {"results", "answer"} \subseteq DOMAIN data

(***************************************************************************)
(* Properties of the dispatcher                                            *)
(***************************************************************************)
LatestInstructionCase ==
    /\ HasIntent
    /\ intentOutput.o.intent = "search_latest"
    /\ "documentType" \in DOMAIN intentOutput.o
    /\ intentOutput.o.documentType = "instruction"
    /\ Dispatched

\* The positions of a result list whose title starts with the letter.
PositionsOf(results, letter) ==
    {k \in 1..Len(results) :
        /\ "titulo" \in DOMAIN results[k]
        /\ results[k].titulo.t = "string"
        /\ startsWith(results[k].titulo.s, letter)}

\* At most one record per requested letter and none of another letter, the
\* I record before the E record.
OnePerLetter(results, letters) ==
    /\ \A k \in 1..Len(results) : \E letter \in letters : k \in PositionsOf(results, letter)
    /\ \A letter \in letters : Cardinality(PositionsOf(results, letter)) <= 1
    /\ \A i \in PositionsOf(results, "I") : \A e \in PositionsOf(results, "E") : i < e

\* C18: search_latest on instructions: the fetched records, and the returned
\* ones, hold at most one record per requested letter (I for interno, E for
\* externo, both for ambos or no subtype), every record's title starts with
\* a requested letter, the I record comes before the E record, and a letter
\* that no stored title starts with has no record.
C18_LatestPerLetter ==
    LatestInstructionCase =>
        LET letters == RequestedLetters(intentOutput.o)
        IN  /\ OnePerLetter(dbResults, letters)
            /\ \A letter \in letters :
                  WithLetter(letter) = {} => PositionsOf(dbResults, letter) = {}
            /\ Len(dbResults) = Cardinality({letter \in letters : WithLetter(letter) # {}})
            /\ (pc = "done" /\ outcome = "synthesized") =>
                  /\ OnePerLetter(data.results, letters)
                  /\ Len(data.results) = Len(dbResults)

\* No subtype, a store with titles of both letters: the I record, then the E
\* record, are returned.
C18_Witness ==
    /\ LatestInstructionCase
    /\ "instructivoType" \notin DOMAIN intentOutput.o
    /\ pc = "done"
    /\ outcome = "synthesized"
    /\ Len(data.results) = 2
    /\ PositionsOf(data.results, "I") = {1}
    /\ PositionsOf(data.results, "E") = {2}

\* Subtype ambos over a store without internal instructions: one E record.
C18_MissingLetterCase ==
    /\ LatestInstructionCase
    /\ "instructivoType" \in DOMAIN intentOutput.o
    /\ intentOutput.o.instructivoType = "ambos"
    /\ WithLetter("I") = {}
    /\ pc = "done"
    /\ outcome = "synthesized"
    /\ Len(data.results) = 1

\* Subtype interno over a store without internal instructions: nothing fetched.
C18_NothingCase ==
    /\ LatestInstructionCase
    /\ "instructivoType" \in DOMAIN intentOutput.o
    /\ intentOutput.o.instructivoType = "interno"
    /\ WithLetter("I") = {}
    /\ pc = "done"
    /\ outcome = "no_match"
    /\ Len(storeLog) = 1

LatestNoticeCase ==
    /\ HasIntent
    /\ intentOutput.o.intent = "search_latest"
    /\ "documentType" \in DOMAIN intentOutput.o
    /\ intentOutput.o.documentType = "circular"
    /\ Dispatched

\* The day a notice was issued, as ISO text (year-month-day), whether the
\* store holds it as a Date or as a string; text of equal length in this
\* form is ordered as the days are.
IssueDay(r) ==
    LET f == Prop(r, "fecha_expedicion")
    IN  CASE f.t = "date" -> f.d [] f.t = "string" -> f.s [] OTHER -> ""

\* C19: search_latest on notices: the store is asked for notices only, with
\* no keyword or year filter whatever the Intent carries; the fetched records
\* are min(5, number of stored notices) different stored notices, each issued
\* no earlier than the next one, and no stored notice left out was issued
\* after a fetched one.
C19_LatestNotices ==
    LatestNoticeCase =>
        LET notices == store.circulares
            n == IF Len(notices) < 5 THEN Len(notices) ELSE 5
            fetched == {dbResults[k] : k \in 1..Len(dbResults)}
            stored == {notices[i] : i \in 1..Len(notices)}
        IN  /\ \A i \in 1..Len(storeLog) :
                  storeLog[i].collection = "circulares" /\ storeLog[i].query = MatchAll
            /\ Len(dbResults) = n
            /\ Cardinality(fetched) = n
            /\ fetched \subseteq stored
            /\ \A k \in 1..(Len(dbResults) - 1) :
                  StrLeq(IssueDay(dbResults[k + 1]), IssueDay(dbResults[k]))
            /\ \A d \in stored \ fetched : \A k \in 1..Len(dbResults) :
                  StrLeq(IssueDay(d), IssueDay(dbResults[k]))
            /\ (pc = "done" /\ outcome = "synthesized") => Len(data.results) = n

\* handleSearch over a store that holds the issue date of one notice as a
\* Date and of the others as strings: the notice of 2023-02-10 is returned
\* before the one of 2023-11-30.
C19_OlderNoticeFirst ==
    /\ LatestNoticeCase
    /\ path = "twophase"
    /\ pc = "done"
    /\ outcome = "synthesized"
    /\ storeLog = <<[collection |-> "circulares", op |-> "latest", query |-> MatchAll]>>
    /\ Len(dbResults) >= 2
    /\ dbResults[1] = circ0423
    /\ dbResults[2] = circ0520

\* The inline flow on the same request: a find with the keyword and year
\* filter of the Intent, neither ordered nor limited.
C19_InlineFilteredFind ==
    /\ LatestNoticeCase
    /\ path = "inline"
    /\ Len(storeLog) = 1
    /\ storeLog[1].op = "find"
    /\ storeLog[1].query # MatchAll

\* Six stored notices, an Intent with keywords and a year: five records are
\* returned and the notice of 2005 is not among them.
C19_Witness ==
    /\ LatestNoticeCase
    /\ path = "twophase"
    /\ store = StoreFull
    /\ "keywords" \in DOMAIN intentOutput.o
    /\ intentOutput.o.keywords # <<>>
    /\ "year" \in DOMAIN intentOutput.o
    /\ pc = "done"
    /\ outcome = "synthesized"
    /\ Len(data.results) = 5
    /\ \A k \in 1..Len(dbResults) : dbResults[k] # circ1205

\* Three stored notices: all three are returned.
C19_FewerCase ==
    /\ LatestNoticeCase
    /\ path = "twophase"
    /\ store = StoreExternos
    /\ pc = "done"
    /\ outcome = "synthesized"
    /\ Len(data.results) = 3

GenericSearchCase ==
    /\ HasIntent
    /\ intentOutput.o.intent # "search_latest"
    /\ Dispatched

\* The collections a document type names, in the order notices,
\* instructions, regulation.
CollectionsOf(kind) ==
    CASE kind = "circular" -> <<"circulares">>
      [] kind = "instruction" -> <<"instructivos">>
      [] kind = "regulation" -> <<"reglamentos">>
      [] kind = "all" -> <<"circulares", "instructivos", "reglamentos">>

KindOf(collectionName) ==
    CASE collectionName = "circulares" -> "circular"
      [] collectionName = "instructivos" -> "instruction"
      [] collectionName = "reglamentos" -> "regulation"

\* The predicate the request's orchestration compiles for a collection.
PredicateFor(collectionName) ==
    LET io == intentOutput.o
        kw == IF "keywords" \in DOMAIN io THEN io.keywords ELSE <<>>
        year == IF "year" \in DOMAIN io THEN Num(io.year) ELSE Undefined
    IN  IF path = "inline" THEN buildSearchQueryFlow(kw, KindOf(collectionName), year)
        ELSE buildSearchQuery(kw, KindOf(collectionName), year)

\* C20: for an Intent other than search_latest the store calls are one find
\* per collection of documentType (all three, in the order circulares,
\* instructivos, reglamentos, when it is all or absent), each with the
\* predicate compiled for that collection's own kind, and the fetched
\* records are the calls' results concatenated in that order.
C20_GenericDispatch ==
    GenericSearchCase =>
        LET io == intentOutput.o
            colls == CollectionsOf(IF "documentType" \in DOMAIN io THEN io.documentType
                                   ELSE "all")
            Concat[i \in 0..Len(colls)] ==
                IF i = 0 THEN <<>>
                ELSE Concat[i - 1] \o Find(store[colls[i]], PredicateFor(colls[i]))
        IN  /\ Len(storeLog) = Len(colls)
            /\ \A i \in 1..Len(colls) :
                  storeLog[i] = [collection |-> colls[i], op |-> "find",
                                 query |-> PredicateFor(colls[i])]
            /\ dbResults = Concat[Len(colls)]

\* No documentType, one keyword: three collections queried, a notice fetched
\* before an instruction.
C20_Witness ==
    /\ GenericSearchCase
    /\ "documentType" \notin DOMAIN intentOutput.o
    /\ "keywords" \in DOMAIN intentOutput.o
    /\ intentOutput.o.keywords # <<>>
    /\ pc = "done"
    /\ outcome = "synthesized"
    /\ Len(storeLog) = 3
    /\ \E j, k \in 1..Len(dbResults) :
          /\ j < k
          /\ "numero" \in DOMAIN dbResults[j]
          /\ "titulo" \in DOMAIN dbResults[k]

(***************************************************************************)
(* Properties of the order of the steps                                    *)
(***************************************************************************)
\* The records the store calls made so far have returned, in call order.
FetchedSoFar ==
    LET F[i \in 0..Len(storeLog)] ==
            IF i = 0 THEN <<>> ELSE F[i - 1] \o Exec(store, storeLog[i])
    IN  F[Len(storeLog)]

\* C21: when the synthesizer is called, the one classifier call has returned
\* an Intent, every store call of the request's plan has been made and has
\* returned, and the deduplicated and normalized list is that of all their
\* records; a deduplicated list exists only when all the calls have returned,
\* and while a call is still to be made nothing is deduplicated and the
\* synthesizer has not been called.
C21_SynthesisLast ==
    /\ synthLog # <<>> =>
          /\ Len(synthLog) = 1
          /\ classifierCalls = 1
          /\ HasIntent
          /\ storeLog = PlanOfRequest
          /\ dbResults = FetchedSoFar
          /\ processedResults = normalizeResults(path, dbResults)
          /\ synthLog[1].resultsCount = Len(processedResults)
    /\ processedResults # <<>> =>
          /\ HasIntent
          /\ storeLog = PlanOfRequest
          /\ processedResults = normalizeResults(path, FetchedSoFar)
    /\ (pc \in {"submitted", "start", "connect", "context", "getdb"} \/ (pc = "fetch" /\ pending # <<>>)) =>
          /\ synthLog = <<>>
          /\ processedResults = <<>>

\* Three collections fetched, then the synthesizer called with the count of
\* the normalized records.
C21_Witness ==
    /\ pc = "synth"
    /\ Len(storeLog) = 3
    /\ Len(dbResults) >= 2
    /\ Len(synthLog) = 1
    /\ synthLog[1].resultsCount = Len(processedResults)

(***************************************************************************)
(* Properties of the answer context                                        *)
(***************************************************************************)
\* C22: in both orchestrations the context given to the synthesizer is the
\* serialization of the normalized records that the request returns.
C22_ContextIsReturnedRecords ==
    synthLog # <<>> =>
        /\ synthLog[1].context = JSONstringify(processedResults)
        /\ (pc = "done" /\ outcome = "synthesized") => data.results = processedResults

(***************************************************************************)
(* Properties of the handling of stored records that lack fields           *)
(***************************************************************************)
\* Every store call of the plan has returned and no collaborator has failed.
FetchedAll ==
    /\ pc = "done"
    /\ HasIntent
    /\ pending = <<>>
    /\ storeLog = PlanOfRequest
    /\ outcome \notin {"error_store", "error_synth"}

\* C23: whatever fields the fetched records lack (title, summary, keywords,
\* articles, identity), a request whose store calls have all returned ends
\* without an error, with a result list.
C23_MalformedTolerated ==
    FetchedAll =>
        /\ error = NoError
        /\ "results" \in DOMAIN data

\* Records without a title, without a summary and without articles are
\* fetched, normalized and returned.
C23_ToleratedCase ==
    /\ FetchedAll
    /\ outcome = "synthesized"
    /\ \E k \in 1..Len(data.results) : "titulo" \notin DOMAIN data.results[k]
                                       /\ "titulo_seccion" \notin DOMAIN data.results[k]
                                       /\ "numero" \notin DOMAIN data.results[k]
    /\ \E k \in 1..Len(data.results) : "numero" \in DOMAIN data.results[k]
                                       /\ "resumen" \notin DOMAIN data.results[k]

(***************************************************************************)
(* Properties of deduplication and of the article numbers                  *)
(***************************************************************************)
\* The text of a stored identity.
IdentityText(id) ==
    CASE id.t = "ObjectId" -> id.hex
      [] id.t = "string" -> id.s
      [] id.t = "number" -> NumberToString(id.n)

\* The positions of the list that hold the first record of their identity.
FirstPositions(results) ==
    {i \in 1..Len(results) :
        \A j \in 1..(i - 1) : IdentityText(results[j]._id) # IdentityText(results[i]._id)}

\* The k-th smallest element of a set of positions.
KthPosition(positions, k) ==
    CHOOSE i \in positions : Cardinality({j \in positions : j <= i}) = k

\* C24: the normalized list has one record per distinct identity of the
\* fetched list; its k-th record is made from the k-th fetched record that
\* is the first of its identity, so first occurrences are kept, later ones
\* dropped, and the kept records stay in fetch order.
C24_FirstOccurrenceKept ==
    once.done =>
        LET firsts == FirstPositions(raw)
        IN  /\ Len(once.out) = Cardinality({IdentityText(raw[i]._id) : i \in 1..Len(raw)})
            /\ Len(once.out) = Cardinality(firsts)
            /\ \A k \in 1..Len(once.out) :
                  LET src == raw[KthPosition(firsts, k)]
                  IN  /\ once.out[k]._id = Str(IdentityText(src._id))
                      /\ \A f \in DOMAIN once.out[k] \ {"_id"} : f \in DOMAIN src
                      /\ "titulo" \in DOMAIN src => once.out[k].titulo = src.titulo

\* Two records of one identity with another record between them: two
\* records are emitted, the first of the identity and the other one.
C24_Witness ==
    /\ once.done
    /\ Len(raw) = 3
    /\ raw[1] = normInstructivo
    /\ raw[2] = normCircular
    /\ raw[3] = normDuplicado
    /\ Len(once.out) = 2
    /\ once.out[1].titulo = normInstructivo.titulo

(***************************************************************************)
(* Properties of the Intent of a request                                   *)
(***************************************************************************)
\* C25: the classifier is called at most once per request, and once as soon
\* as the request is past classification; the Intent that the first flow
\* call hands back is the classifier's output and stays so through the
\* second flow call; the intent kind and the documentType given to the
\* synthesizer are those of that Intent, documentType being all when absent.
C25_IntentProducedOnce ==
    /\ classifierCalls <= 1
    /\ pc \in {"connect", "context", "getdb", "fetch", "synth", "closing"} => classifierCalls = 1 /\ HasIntent
    /\ (pc = "done" /\ outcome # "validation_error") => classifierCalls = 1
    /\ "intentAnalysis" \in DOMAIN firstResult =>
          HasIntent /\ firstResult.intentAnalysis = intentOutput.o
    /\ synthLog # <<>> =>
          /\ HasIntent
          /\ synthLog[1].intent = intentOutput.o.intent
          /\ synthLog[1].documentType =
                (IF "documentType" \in DOMAIN intentOutput.o
                 THEN intentOutput.o.documentType ELSE "all")

\* handleSearch has made its second flow call for an Intent of one document
\* type: one classifier call, the synthesizer given that type and kind.
C25_Witness ==
    /\ path = "twophase"
    /\ pc = "done"
    /\ outcome = "synthesized"
    /\ classifierCalls = 1
    /\ "documentType" \in DOMAIN intentOutput.o
    /\ intentOutput.o.documentType = "regulation"
    /\ synthLog[1].documentType = "regulation"
    /\ synthLog[1].intent = "count_items"

\* C26: in every emitted record, every article that has an article number
\* has it as a string.
C26_ArticleNumbersAreStrings ==
    once.done =>
        \A k \in 1..Len(once.out) :
            ("articulos" \in DOMAIN once.out[k] /\ once.out[k].articulos.t = "array") =>
                \A i \in 1..Len(once.out[k].articulos.a) :
                    LET articulo == once.out[k].articulos.a[i]
                    IN  (articulo.t = "object" /\ "numero_articulo" \in DOMAIN articulo.o) =>
                            articulo.o.numero_articulo.t = "string"

(***************************************************************************)
(* Properties of what handleSearch returns                                 *)
(***************************************************************************)
\* The non-empty answers the synthesizer can give.
SynthAnswers ==
    {out.o.answer.s : out \in {x \in SynthOutputs :
        x.t = "object" /\ "answer" \in DOMAIN x.o /\ x.o.answer.t = "string" /\ x.o.answer.s # ""}}

\* C27: the data handleSearch returns never carries requiresContext and never
\* has an empty answer; when the first flow call asked for context, the data
\* is not the first result: its answer is the no-match message when the
\* synthesizer was not called, and otherwise the synthesizer's non-empty
\* answer or the fallback message.
C27_NoContextSignalReturned ==
    (path = "twophase" /\ pc = "done" /\ error = NoError) =>
        /\ "requiresContext" \notin DOMAIN data
        /\ "answer" \in DOMAIN data
        /\ data.answer # ""
        /\ "requiresContext" \in DOMAIN firstResult =>
              /\ firstResult.answer = ""
              /\ data # firstResult
              /\ IF synthLog = <<>> THEN data.answer = NoMatchAnswer
                 ELSE data.answer \in SynthAnswers \cup {FallbackAnswer}

\* The first flow call asked for context and the synthesizer gave no answer:
\* the fallback message is returned.
C27_Witness ==
    /\ path = "twophase"
    /\ pc = "done"
    /\ error = NoError
    /\ "requiresContext" \in DOMAIN firstResult
    /\ Len(synthLog) = 1
    /\ data.answer = FallbackAnswer

\* search_latest in handleSearch for a documentType that has no latest branch.
LatestWithoutBranchCase ==
    /\ path = "twophase"
    /\ HasIntent
    /\ intentOutput.o.intent = "search_latest"
    /\ ("documentType" \in DOMAIN intentOutput.o =>
           intentOutput.o.documentType \in {"regulation", "all"})
    /\ pc \in {"fetch", "synth", "done"}

\* C28: in handleSearch a search_latest Intent whose documentType is
\* regulation, all or absent makes no store call and fetches nothing; the
\* synthesizer is not called and the request returns the empty result list
\* with the no-match message, whatever its keywords and year.
C28_LatestWithoutBranch ==
    LatestWithoutBranchCase =>
        /\ storeLog = <<>>
        /\ pending = <<>>
        /\ dbResults = <<>>
        /\ synthLog = <<>>
        /\ pc # "synth"
        /\ (pc = "done" /\ error = NoError) =>
              data = [results |-> <<>>, answer |-> NoMatchAnswer]

\* search_latest with keywords and a year and no documentType over the full
\* store: the no-match message.
C28_Witness ==
    /\ LatestWithoutBranchCase
    /\ store = StoreFull
    /\ "documentType" \notin DOMAIN intentOutput.o
    /\ "keywords" \in DOMAIN intentOutput.o
    /\ intentOutput.o.keywords # <<>>
    /\ "year" \in DOMAIN intentOutput.o
    /\ pc = "done"
    /\ error = NoError
    /\ data.answer = NoMatchAnswer

(***************************************************************************)
(* Properties of the identifier shortcut in the dispatch                   *)
(***************************************************************************)
\* handleSearch has fetched for an Intent other than search_latest with
\* documentType all (or absent) and a keyword of the notice-number form.
IdentifierInAllCase ==
    /\ path = "twophase"
    /\ GenericSearchCase
    /\ ("documentType" \in DOMAIN intentOutput.o => intentOutput.o.documentType = "all")
    /\ "keywords" \in DOMAIN intentOutput.o
    /\ \E i \in 1..Len(intentOutput.o.keywords) : circularNumberRegex(intentOutput.o.keywords[i])

\* The predicate is the ordinary one for the fields: an $or that holds a
\* regex clause for every keyword of the list on every field, joined by $and
\* with the clause of the issue date when the Intent has a year.
OrdinaryPredicate(q, keywords, fields, hasYear) ==
    LET keywordPart == IF hasYear THEN q.args[1] ELSE q
    IN  /\ q.op = (IF hasYear THEN "and" ELSE "or")
        /\ hasYear => Len(q.args) = 2 /\ q.args[2].op = "or"
                      /\ \A j \in 1..Len(q.args[2].args) :
                            q.args[2].args[j].field = "fecha_expedicion"
        /\ keywordPart.op = "or"
        /\ \A i \in 1..Len(keywords) : \A j \in 1..Len(fields) :
              \E a \in 1..Len(keywordPart.args) :
                  keywordPart.args[a] = [op |-> "regex", field |-> fields[j], regex |-> keywords[i]]

\* C29: documentType all and a keyword that is a notice number: the notice
\* collection is queried with the identifier predicate (tipo_normativa
\* CIRCULAR and numero equal to the first such keyword), while the
\* instruction and the regulation collections are queried with the ordinary
\* predicate over the whole keyword list and the year.
C29_ShortcutOnNoticesOnly ==
    IdentifierInAllCase =>
        LET keywords == intentOutput.o.keywords
            code == keywords[CHOOSE i \in 1..Len(keywords) :
                        /\ circularNumberRegex(keywords[i])
                        /\ \A j \in 1..(i - 1) : ~circularNumberRegex(keywords[j])]
            hasYear == "year" \in DOMAIN intentOutput.o
        IN  /\ Len(storeLog) = 3
            /\ storeLog[1].collection = "circulares"
            /\ storeLog[1].query =
                  [op |-> "fields",
                   args |-> <<[op |-> "regex", field |-> "tipo_normativa", regex |-> "CIRCULAR"],
                              [op |-> "eq", field |-> "numero", value |-> code]>>]
            /\ storeLog[2].collection = "instructivos"
            /\ OrdinaryPredicate(storeLog[2].query, keywords, instructionFields, hasYear)
            /\ storeLog[3].collection = "reglamentos"
            /\ OrdinaryPredicate(storeLog[3].query, keywords, regulationFields, hasYear)

\* Keywords 06/20 and firma, no documentType: the circular 06/20 is fetched
\* and so is an instruction about firma.
C29_Witness ==
    /\ IdentifierInAllCase
    /\ pc = "done"
    /\ outcome = "synthesized"
    /\ \E k \in 1..Len(dbResults) :
          "numero" \in DOMAIN dbResults[k] /\ dbResults[k].numero = Str("06/20")
    /\ \E k \in 1..Len(dbResults) : "titulo" \in DOMAIN dbResults[k]

(***************************************************************************)
(* Properties of the titles without a number in the latest resolver        *)
(***************************************************************************)
\* The stored instructions that have no title.
WithoutTitle ==
    {i \in 1..Len(store.instructivos) : "titulo" \notin DOMAIN store.instructivos[i]}

\* The title at the position has the form letter, digits.
HasNumber(i) == LeadingNumber(store.instructivos[i].titulo.s) # ""

\* The stored instruction at the position is among the fetched records.
Returned(i) == \E k \in 1..Len(dbResults) : dbResults[k] = store.instructivos[i]

\* C30 as amended: for each requested letter, a stored title that starts
\* with the letter and has no digits after it is returned exactly when no
\* title of that letter has a positive number and it is the first title of
\* that letter in store order; when some title of the letter has a positive
\* number, the returned record of the letter has a title of the form letter,
\* digits; a record without a title is never returned.
C30_TitlesWithoutNumber ==
    LatestInstructionCase =>
        /\ \A i \in WithoutTitle : ~Returned(i)
        /\ \A letter \in RequestedLetters(intentOutput.o) :
              LET candidates == WithLetter(letter)
                  positive == {j \in candidates : TitleNumber(j) > 0}
              IN  /\ \A i \in candidates :
                        ~HasNumber(i) =>
                            (Returned(i) <=>
                                (positive = {} /\ \A j \in candidates : i <= j))
                  /\ positive # {} =>
                        \A i \in candidates : Returned(i) => HasNumber(i) /\ i \in positive

\* No internal instruction has a number: of the titles Indice and
\* Instructivo general the first one is returned.
C30_Witness ==
    /\ LatestInstructionCase
    /\ store = StoreIndices
    /\ "instructivoType" \in DOMAIN intentOutput.o
    /\ intentOutput.o.instructivoType = "interno"
    /\ pc = "done"
    /\ outcome = "synthesized"
    /\ Len(data.results) = 1
    /\ data.results[1].titulo = Str("Indice")

\* C30 as stated: a record without a title is a candidate of the requested
\* letter, fetched and ranked with number 0 like a title without digits; a
\* candidate of rank 0 is returned exactly when no title of the letter has a
\* positive number and it is the first candidate in store order.
C30_MissingTitleFetched ==
    LatestInstructionCase =>
        \A letter \in RequestedLetters(intentOutput.o) :
            LET candidates == WithLetter(letter) \cup WithoutTitle
                positive == {j \in WithLetter(letter) : TitleNumber(j) > 0}
            IN  \A i \in candidates :
                    (i \in WithoutTitle \/ ~HasNumber(i)) =>
                        (Returned(i) <=> (positive = {} /\ \A j \in candidates : i <= j))

====
